---- MODULE Spec2Model ----
(***************************************************************************)
(* Verification model of the UAV path planner core:                        *)
(*   - mission/waypoint.py            WaypointSequence                     *)
(*   - core/global_planner/astar.py   AStarPlanner                         *)
(*   - core/local_planner/dwa.py      DWAPlanner                           *)
(*   - core/collision/obstacle_manager.py  ObstacleManager                 *)
(*   - core/global_planner/grid_generator.py  GridSurveyGenerator          *)
(*   - core/global_planner/zigzag_grid_generator_integration.py            *)
(*   - mission/swarm_coordinator.py   SwarmMission                         *)
(* Python floats are modelled in fixed point: lengths are integers in      *)
(* millimetres.  Each subsystem has its own specification over the shared  *)
(* variable tuple.                                                         *)
(***************************************************************************)
EXTENDS Integers, Sequences, FiniteSets, TLC

VARIABLES
    waypoints,      \* WaypointSequence.waypoints : sequence of waypoint records
    ws_last,        \* name of the last WaypointSequence operation performed
    as_cfg,         \* A*: arguments of the running search and planner settings
    as_pc,          \* A*: "idle", "search" (inside the while loop) or "done"
    open_set,       \* A*: the heapq list of nodes
    closed_set,     \* A*: set of expanded positions
    g_scores,       \* A*: position -> best known g
    came_from,      \* A*: position -> predecessor position
    iterations,     \* A*: loop counter
    as_path,        \* A*: value returned by _astar_search
    as_last,        \* A*: what the last loop iteration popped and did
    as_cancel_requested, \* A*: a caller has asked for cancellation during the search
    as_timed_out,   \* A*: PlannerConfig.timeout (30 s) has elapsed during the search
    global_path,    \* DWA: LocalPlanner._global_path
    current_waypoint_idx, \* DWA: LocalPlanner._current_waypoint_idx (0-based)
    current_goal,   \* DWA: DWAPlanner._current_goal (None or a point)
    cancel_requested, \* DWA: BasePlanner._cancel_requested
    vehicle_state,  \* DWA: vehicle.state, the state last handed to compute_velocity
    dwa_ret,        \* DWA: the tuple last returned by compute_velocity
    dwa_last,       \* DWA: the last operation called and its arguments
    om_objects,     \* ObstacleManager: the obstacle objects the caller holds, by reference
    om_obstacles,   \* ObstacleManager.obstacles: list of references
    om_obstacle_dict, \* ObstacleManager.obstacle_dict: id -> reference
    om_spatial_grid,  \* ObstacleManager.spatial_grid: cell -> list of ids
    om_next_id,     \* ObstacleManager._next_id
    om_last,        \* ObstacleManager: the last call, its arguments and its result
    gs_config,      \* GridSurveyGenerator.config
    gs_status,      \* GridSurveyGenerator._status
    gs_scan_lines,  \* GridSurveyGenerator._scan_lines
    gs_result,      \* the PlannerResult last returned by generate_survey_grid
    gs_last,        \* GridSurveyGenerator: the last call and its arguments
    zz_config,      \* ZigzagGridGenerator.config
    zz_line_spacing, \* ZigzagGridGenerator._line_spacing
    zz_result,      \* the ZigzagSurveyResult last returned by generate_zigzag_grid
    zz_last,        \* ZigzagGridGenerator: the last call and its arguments
    qgc_waypoints,  \* QGC text: the WaypointSequence that is written out
    qgc_emitted,    \* QGC text: the lines to_qgc_format returned, <<>> before
    qgc_parsed,     \* QGC text: waypoints of the sequence from_qgc_format built
    qgc_last,       \* QGC text: the last operation performed
    sw_drones,      \* SwarmMission.drones: list of DroneInfo
    sw_params,      \* SwarmMission.swarm_params
    sw_result,      \* SwarmMission: what the last call returned or raised
    sw_last,        \* SwarmMission: the last call and its arguments
    sp_regions,     \* MultiDroneSplitter: the list split_region returned
    sp_last,        \* MultiDroneSplitter: the last call and its arguments
    ex_lines,       \* MAVLinkExporter: the QGC WPL 110 lines last produced
    ex_last,        \* MAVLinkExporter: the last call and its arguments
    vc_constraints, \* VehicleModel.config.constraints of the planner's vehicle
    vc_last,        \* vehicle constraints: the last call and its result
    xf_file,        \* exporters: the file at the path handed to the exporter
    xf_last         \* exporters: the last export, the fault met, what it returned

wsVars == <<waypoints, ws_last>>

asVars == <<as_cfg, as_pc, open_set, closed_set, g_scores, came_from,
            iterations, as_path, as_last, as_cancel_requested, as_timed_out>>

dwaVars == <<global_path, current_waypoint_idx, current_goal, cancel_requested,
             vehicle_state, dwa_ret, dwa_last>>

omVars == <<om_objects, om_obstacles, om_obstacle_dict, om_spatial_grid,
            om_next_id, om_last>>

gsVars == <<gs_config, gs_status, gs_scan_lines, gs_result, gs_last>>

zzVars == <<zz_config, zz_line_spacing, zz_result, zz_last>>

qgcVars == <<qgc_waypoints, qgc_emitted, qgc_parsed, qgc_last>>

swVars == <<sw_drones, sw_params, sw_result, sw_last>>

spVars == <<sp_regions, sp_last>>

exVars == <<ex_lines, ex_last>>

vcVars == <<vc_constraints, vc_last>>

xfVars == <<xf_file, xf_last>>

vars == <<wsVars, asVars, dwaVars, omVars, gsVars, zzVars, qgcVars, swVars,
    spVars, exVars, vcVars, xfVars>>

\* what an operation of one component leaves alone: the other components
WsFrame == UNCHANGED <<asVars, dwaVars, omVars, gsVars, zzVars, qgcVars,
    swVars, spVars, exVars, vcVars, xfVars>>

AsFrame == UNCHANGED <<wsVars, dwaVars, omVars, gsVars, zzVars, qgcVars,
    swVars, spVars, exVars, vcVars, xfVars>>

DwaFrame == UNCHANGED <<wsVars, asVars, omVars, gsVars, zzVars, qgcVars,
    swVars, spVars, exVars, vcVars, xfVars>>

OmFrame == UNCHANGED <<wsVars, asVars, dwaVars, gsVars, zzVars, qgcVars,
    swVars, spVars, exVars, vcVars, xfVars>>

GsFrame == UNCHANGED <<wsVars, asVars, dwaVars, omVars, zzVars, qgcVars,
    swVars, spVars, exVars, vcVars, xfVars>>

ZzFrame == UNCHANGED <<wsVars, asVars, dwaVars, omVars, gsVars, qgcVars,
    swVars, spVars, exVars, vcVars, xfVars>>

QgcFrame == UNCHANGED <<wsVars, asVars, dwaVars, omVars, gsVars, zzVars,
    swVars, spVars, exVars, vcVars, xfVars>>

SwFrame == UNCHANGED <<wsVars, asVars, dwaVars, omVars, gsVars, zzVars,
    qgcVars, spVars, exVars, vcVars, xfVars>>

SpFrame == UNCHANGED <<wsVars, asVars, dwaVars, omVars, gsVars, zzVars,
    qgcVars, swVars, exVars, vcVars, xfVars>>

ExFrame == UNCHANGED <<wsVars, asVars, dwaVars, omVars, gsVars, zzVars,
    qgcVars, swVars, spVars, vcVars, xfVars>>

VcFrame == UNCHANGED <<wsVars, asVars, dwaVars, omVars, gsVars, zzVars,
    qgcVars, swVars, spVars, exVars, xfVars>>

XfFrame == UNCHANGED <<wsVars, asVars, dwaVars, omVars, gsVars, zzVars,
    qgcVars, swVars, spVars, exVars, vcVars>>

(***************************************************************************)
(* Generic helpers                                                         *)
(***************************************************************************)
Abs(x) == IF x < 0 THEN -x ELSE x

Min2(a, b) == IF a <= b THEN a ELSE b

Max2(a, b) == IF a >= b THEN a ELSE b

(***************************************************************************)
(* mission/waypoint.py : Waypoint, WaypointSequence                        *)
(***************************************************************************)
\* bound: longest waypoint list the model builds
MaxLen == 4

\* MAVCommand values used by the model's waypoints
NAV_WAYPOINT == 16

NAV_RETURN_TO_LAUNCH == 20

NAV_TAKEOFF == 22

WpCommands == {NAV_WAYPOINT, NAV_RETURN_TO_LAUNCH, NAV_TAKEOFF}

\* seq values a caller may have put in a Waypoint before handing it over
CallerSeqs == {0, 2, 7}

\* A Waypoint as the caller constructs it (seq is whatever the caller chose)
Waypoint(s, c) == [seq |-> s, command |-> c]

CallerWaypoints == {Waypoint(s, c) : s \in CallerSeqs, c \in WpCommands}

\* mutant: the re-index step is skipped
UpdateSequenceNumbers_Skip(wps) == wps

\* WaypointSequence._update_sequence_numbers: wp.seq = i for enumerate(...)
\* (Python indices are 0-based; position k of the TLA+ sequence is index k-1)
UpdateSequenceNumbers(wps) ==
    [k \in 1..Len(wps) |-> [wps[k] EXCEPT !.seq = k - 1]]

\* list.insert(index, x): negative indices count from the end, then clamp
PyInsertPos(n, index) ==
    LET i == IF index < 0 THEN index + n ELSE index
    IN  IF i < 0 THEN 0 ELSE IF i > n THEN n ELSE i

ListInsert(wps, index, wp) ==
    LET p == PyInsertPos(Len(wps), index)
    IN  SubSeq(wps, 1, p) \o <<wp>> \o SubSeq(wps, p + 1, Len(wps))

\* list.pop(index) for 0 <= index < len
ListPop(wps, index) ==
    SubSeq(wps, 1, index) \o SubSeq(wps, index + 2, Len(wps))

\* WaypointSequence.__init__(waypoints)
WsConstruct ==
    /\ \E n \in 0..2 :
          \E l \in [1..n -> CallerWaypoints] :
            /\ waypoints' = UpdateSequenceNumbers(l)
            /\ ws_last' = "init"
    /\ WsFrame

\* WaypointSequence.add(waypoint)
WsAdd ==
    /\ Len(waypoints) < MaxLen
    /\ \E wp \in CallerWaypoints :
         waypoints' = UpdateSequenceNumbers(Append(waypoints, wp))
    /\ ws_last' = "add"
    /\ WsFrame

\* WaypointSequence.insert(index, waypoint)
WsInsert ==
    /\ Len(waypoints) < MaxLen
    /\ \E wp \in CallerWaypoints, index \in -(MaxLen + 1)..(MaxLen + 1) :
         waypoints' = UpdateSequenceNumbers(ListInsert(waypoints, index, wp))
    /\ ws_last' = "insert"
    /\ WsFrame

\* WaypointSequence.remove(index): out-of-range indices return None
WsRemove ==
    /\ \E index \in -1..MaxLen :
         waypoints' = IF 0 <= index /\ index < Len(waypoints)
                      THEN UpdateSequenceNumbers(ListPop(waypoints, index))
                      ELSE waypoints
    /\ ws_last' = "remove"
    /\ WsFrame

\* WaypointSequence.clear()
WsClear ==
    /\ waypoints' = <<>>
    /\ ws_last' = "clear"
    /\ WsFrame

WsInit ==
    /\ waypoints = <<>>
    /\ ws_last = "init"

WsNext == WsConstruct \/ WsAdd \/ WsInsert \/ WsRemove \/ WsClear

(***************************************************************************)
(* Fixed-point arithmetic: lengths in millimetres, square roots taken       *)
(* downwards to the unit.                                                  *)
(***************************************************************************)
RECURSIVE IsqrtIter(_, _)
IsqrtIter(n, x) ==
    LET y == (x + n \div x) \div 2
    IN  IF y >= x THEN x ELSE IsqrtIter(n, y)

\* math.sqrt on a non-negative fixed-point square
Isqrt(n) == IF n <= 0 THEN 0 ELSE IsqrtIter(n, n)

\* a / b rounded to the nearest unit, b > 0
RoundDiv(a, b) ==
    IF a >= 0 THEN (2 * a + b) \div (2 * b)
               ELSE -((2 * (-a) + b) \div (2 * b))

\* sqrt(dx**2 + dy**2); the iteration starts above the root
Hypot(dx, dy) ==
    IF dx = 0 /\ dy = 0 THEN 0
    ELSE IsqrtIter(dx * dx + dy * dy, Abs(dx) + Abs(dy))

(***************************************************************************)
(* core/collision/collision_checker.py : CircleObstacle, CollisionChecker  *)
(***************************************************************************)
\* CircleObstacle.effective_radius
CircleEffectiveRadius(o) == o.radius + o.safety_margin

\* CircleObstacle.distance_to_point: abs(distance_to_center - radius)
CircleDistanceToPoint(o, p) ==
    Abs(Hypot(p[1] - o.center[1], p[2] - o.center[2]) - o.radius)

\* CircleObstacle.contains_point
CircleContainsPoint(o, p) ==
    CircleDistanceToPoint(o, p) < CircleEffectiveRadius(o)

\* CollisionChecker.check_point_collision over the checker's obstacle list
CheckPointCollision(obstacles, p) ==
    \E k \in 1..Len(obstacles) : CircleContainsPoint(obstacles[k], p)

(***************************************************************************)
(* core/global_planner/astar.py : AStarPlanner                             *)
(***************************************************************************)
\* iteration cap of _astar_search
max_iterations == 10000

\* default tolerance of _is_goal_reached: 1.0 m
GoalTolerance == 1000

\* self.directions, in list order
Directions == << <<1, 0>>, <<-1, 0>>, <<0, 1>>, <<0, -1>>,
                 <<1, 1>>, <<1, -1>>, <<-1, 1>>, <<-1, -1>> >>

\* HeuristicType.*; the diagonal heuristic uses the literal 1.414
HeuristicFunc(kind, p1, p2) ==
    LET dx == Abs(p1[1] - p2[1])
        dy == Abs(p1[2] - p2[2])
    IN  CASE kind = "euclidean" -> Hypot(dx, dy)
          [] kind = "manhattan" -> dx + dy
          [] kind = "chebyshev" -> Max2(dx, dy)
          [] kind = "diagonal"  -> (1414 * Min2(dx, dy)) \div 1000 + Abs(dx - dy)

\* heuristic_func(pos, goal) * heuristic_weight; the weight is kept as the
\* integer weight2 = 2 * heuristic_weight
WeightedH(cfg, p) ==
    (HeuristicFunc(cfg.heuristic, p, cfg.goal) * cfg.weight2) \div 2

\* AStarPlanner._calculate_cost
CalculateCost(p1, p2) == Hypot(p2[1] - p1[1], p2[2] - p1[2])

\* AStarPlanner._is_goal_reached with the default tolerance
IsGoalReached(p, goal) ==
    LET dx == Abs(p[1] - goal[1])
        dy == Abs(p[2] - goal[2])
    IN  /\ dx <= GoalTolerance
        /\ dy <= GoalTolerance
        /\ dx * dx + dy * dy <= GoalTolerance * GoalTolerance

\* one pass of the loop body of _point_in_polygon for the edge p1 -> p2
EdgeToggles(pt, p1, p2) ==
    LET x == pt[1]
        y == pt[2]
    IN  /\ y > Min2(p1[2], p2[2])
        /\ y <= Max2(p1[2], p2[2])
        /\ x <= Max2(p1[1], p2[1])
        /\ \/ p1[1] = p2[1]
           \/ IF p2[2] > p1[2]
              THEN (x - p1[1]) * (p2[2] - p1[2]) <= (y - p1[2]) * (p2[1] - p1[1])
              ELSE (x - p1[1]) * (p2[2] - p1[2]) >= (y - p1[2]) * (p2[1] - p1[1])

\* AStarPlanner._point_in_polygon (ray casting, even-odd)
PointInPolygon(pt, polygon) ==
    LET n == Len(polygon)
        toggles == {i \in 1..n : EdgeToggles(pt, polygon[i], polygon[(i % n) + 1])}
    IN  Cardinality(toggles) % 2 = 1

\* mutant: the collision test is dropped from the validity check
IsValidPosition_NoCollision(cfg, p) ==
    ~(cfg.boundary # <<>> /\ ~PointInPolygon(p, cfg.boundary))

\* AStarPlanner._is_valid_position
IsValidPosition(cfg, p) ==
    /\ ~(cfg.boundary # <<>> /\ ~PointInPolygon(p, cfg.boundary))
    /\ ~CheckPointCollision(cfg.obstacles, p)

\* AStarPlanner._get_direct_neighbor; <<>> stands for None
GetDirectNeighbor(cfg, p) ==
    LET dx == cfg.goal[1] - p[1]
        dy == cfg.goal[2] - p[2]
        distance == Hypot(dx, dy)
    IN  IF distance = 0 THEN <<>>
        ELSE << <<p[1] + RoundDiv(dx * cfg.step_size, distance),
                  p[2] + RoundDiv(dy * cfg.step_size, distance)>> >>

\* the eight lattice neighbours that pass the validity check, in order
RECURSIVE LatticeNeighbors(_, _, _)
LatticeNeighbors(cfg, p, k) ==
    IF k > Len(Directions) THEN <<>>
    ELSE LET q == <<p[1] + Directions[k][1] * cfg.step_size,
                    p[2] + Directions[k][2] * cfg.step_size>>
             rest == LatticeNeighbors(cfg, p, k + 1)
         IN  IF IsValidPosition(cfg, q) THEN <<q>> \o rest ELSE rest

SeqContains(s, e) == \E k \in 1..Len(s) : s[k] = e

\* AStarPlanner._get_neighbors
GetNeighbors(cfg, p) ==
    LET neighbors == LatticeNeighbors(cfg, p, 1)
        direct == GetDirectNeighbor(cfg, p)
    IN  IF /\ direct # <<>>
           /\ IsValidPosition(cfg, direct[1])
           /\ ~SeqContains(neighbors, direct[1])
        THEN Append(neighbors, direct[1])
        ELSE neighbors

(***************************************************************************)
(* heapq on a list of AStarNode; nodes compare by f_cost only              *)
(* (0-based heap position i is element i + 1 of the sequence)              *)
(***************************************************************************)
\* AStarNode; the parent pointer is never read by the search
AStarNode(f, g, h, pos) == [f_cost |-> f, g_cost |-> g, h_cost |-> h, position |-> pos]

RECURSIVE SiftDownLoop(_, _, _, _)
SiftDownLoop(heap, newitem, startpos, pos) ==
    IF pos > startpos
    THEN LET parentpos == (pos - 1) \div 2
             parent == heap[parentpos + 1]
         IN  IF newitem.f_cost < parent.f_cost
             THEN SiftDownLoop([heap EXCEPT ![pos + 1] = parent],
                               newitem, startpos, parentpos)
             ELSE [heap EXCEPT ![pos + 1] = newitem]
    ELSE [heap EXCEPT ![pos + 1] = newitem]

\* heapq._siftdown
SiftDown(heap, startpos, pos) == SiftDownLoop(heap, heap[pos + 1], startpos, pos)

RECURSIVE SiftUpLoop(_, _, _, _)
SiftUpLoop(heap, newitem, startpos, pos) ==
    LET endpos == Len(heap)
        childpos == 2 * pos + 1
        rightpos == childpos + 1
    IN  IF childpos < endpos
        THEN LET c == IF /\ rightpos < endpos
                         /\ ~(heap[childpos + 1].f_cost < heap[rightpos + 1].f_cost)
                      THEN rightpos ELSE childpos
             IN  SiftUpLoop([heap EXCEPT ![pos + 1] = heap[c + 1]],
                            newitem, startpos, c)
        ELSE SiftDown([heap EXCEPT ![pos + 1] = newitem], startpos, pos)

\* heapq._siftup
SiftUp(heap, pos) == SiftUpLoop(heap, heap[pos + 1], pos, pos)

\* heapq.heappush
HeapPush(heap, item) == SiftDown(Append(heap, item), 0, Len(heap))

\* heapq.heappop: the popped item and the remaining heap
HeapPop(heap) ==
    LET lastelt == heap[Len(heap)]
        rest == SubSeq(heap, 1, Len(heap) - 1)
    IN  IF rest # <<>>
        THEN [item |-> rest[1], heap |-> SiftUp([rest EXCEPT ![1] = lastelt], 0)]
        ELSE [item |-> lastelt, heap |-> <<>>]

(***************************************************************************)
(* AStarPlanner._astar_search                                              *)
(***************************************************************************)
\* the for-loop over the neighbours of the popped node (lines 199-228);
\* st carries open_set, g_scores and came_from through the loop
RECURSIVE ExpandNeighbors(_, _, _, _, _, _)
ExpandNeighbors(cfg, current_node, closed, neighbors, k, st) ==
    IF k > Len(neighbors) THEN st
    ELSE
      LET neighbor_pos == neighbors[k]
          tentative_g == current_node.g_cost
                           + CalculateCost(current_node.position, neighbor_pos)
          h_cost == WeightedH(cfg, neighbor_pos)
          better == \/ neighbor_pos \notin DOMAIN st.g
                    \/ tentative_g < st.g[neighbor_pos]
          st2 == IF neighbor_pos \notin closed /\ better
                 THEN [heap |-> HeapPush(st.heap,
                                   AStarNode(tentative_g + h_cost, tentative_g,
                                             h_cost, neighbor_pos)),
                       g    |-> (neighbor_pos :> tentative_g) @@ st.g,
                       came |-> (neighbor_pos :> current_node.position) @@ st.came]
                 ELSE st
      IN  ExpandNeighbors(cfg, current_node, closed, neighbors, k + 1, st2)

\* AStarPlanner._reconstruct_path: walk came_from back from current, reversed
RECURSIVE ReconstructBack(_, _)
ReconstructBack(came, current) ==
    IF current \in DOMAIN came
    THEN ReconstructBack(came, came[current]) \o <<current>>
    ELSE <<current>>

\* mutant: the list is returned as walked, terminal state first
ReconstructPath_Unreversed(came, current) ==
    LET walked == ReconstructBack(came, current)
    IN  [i \in 1..Len(walked) |-> walked[Len(walked) + 1 - i]]

ReconstructPath(came, current) == ReconstructBack(came, current)

\* mutant: the loop condition does not test the iteration counter
LoopContinues_NoCap(heap, iters) == heap # <<>>

\* the while condition of line 182
LoopContinues(heap, iters) == heap # <<>> /\ iters < max_iterations

\* lines 159-180: the state on entry to the while loop
AStarEnter(cfg) ==
    LET h_start == WeightedH(cfg, cfg.start)
    IN  /\ as_cfg' = cfg
        /\ as_pc' = "search"
        /\ open_set' = HeapPush(<<>>, AStarNode(h_start, 0, h_start, cfg.start))
        /\ closed_set' = {}
        /\ g_scores' = (cfg.start :> 0)
        /\ came_from' = <<>>
        /\ iterations' = 0
        /\ as_path' = <<>>
        /\ as_last' = [kind |-> "enter"]
        /\ as_cancel_requested' = FALSE
        /\ as_timed_out' = FALSE

\* one pass of the while loop (lines 182-228) on the search state
\* st = [pc, open, closed, g, came, iters, path, last]
AStarStep(cfg, st) ==
    LET popped == HeapPop(st.open)
        current_node == popped.item
        current_pos == current_node.position
    IN  IF IsGoalReached(current_pos, cfg.goal)
        THEN [st EXCEPT !.pc = "done",
                        !.iters = st.iters + 1,
                        !.open = popped.heap,
                        !.path = ReconstructPath(st.came, current_pos),
                        !.last = [kind |-> "goal", position |-> current_pos]]
        ELSE LET closed == st.closed \cup {current_pos}
                 neighbors == GetNeighbors(cfg, current_pos)
                 ex == ExpandNeighbors(cfg, current_node, closed, neighbors, 1,
                           [heap |-> popped.heap, g |-> st.g, came |-> st.came])
             IN  [st EXCEPT !.iters = st.iters + 1,
                            !.open = ex.heap,
                            !.closed = closed,
                            !.g = ex.g,
                            !.came = ex.came,
                            !.last = [kind |-> "expand", position |-> current_pos,
                                      stale |-> current_pos \in st.closed,
                                      neighbors |-> neighbors]]

\* the search state held in the variables
AStarState ==
    [pc |-> as_pc, open |-> open_set, closed |-> closed_set, g |-> g_scores,
     came |-> came_from, iters |-> iterations, path |-> as_path,
     last |-> as_last]

AStarStore(st) ==
    /\ as_pc' = st.pc
    /\ open_set' = st.open
    /\ closed_set' = st.closed
    /\ g_scores' = st.g
    /\ came_from' = st.came
    /\ iterations' = st.iters
    /\ as_path' = st.path
    /\ as_last' = st.last

\* the while loop performs one pass
AStarIterate ==
    /\ as_pc = "search"
    /\ LoopContinues(open_set, iterations)
    /\ AStarStore(AStarStep(as_cfg, AStarState))
    /\ UNCHANGED <<as_cfg, as_cancel_requested, as_timed_out>>
    /\ AsFrame

\* bound: a block of passes observed as one step is BlockLen runs of
\* BlockLen passes
BlockLen == 50

RECURSIVE AStarSteps(_, _, _)
AStarSteps(cfg, st, n) ==
    IF n = 0 \/ st.pc # "search" \/ ~LoopContinues(st.open, st.iters)
    THEN st
    ELSE AStarSteps(cfg, AStarStep(cfg, st), n - 1)

RECURSIVE AStarRuns(_, _, _)
AStarRuns(cfg, st, m) ==
    IF m = 0 \/ st.pc # "search" \/ ~LoopContinues(st.open, st.iters)
    THEN st
    ELSE AStarRuns(cfg, AStarSteps(cfg, st, BlockLen), m - 1)

\* the while loop performs up to BlockLen * BlockLen passes without being
\* observed in between
AStarIterateBlock ==
    /\ as_pc = "search"
    /\ LoopContinues(open_set, iterations)
    /\ AStarStore(AStarRuns(as_cfg, AStarState, BlockLen))
    /\ UNCHANGED <<as_cfg, as_cancel_requested, as_timed_out>>
    /\ AsFrame

\* the loop ends without reaching the goal: return [] (line 231)
AStarExit ==
    /\ as_pc = "search"
    /\ ~LoopContinues(open_set, iterations)
    /\ as_pc' = "done"
    /\ as_path' = <<>>
    /\ as_last' = [kind |-> IF open_set = <<>> THEN "exhausted" ELSE "cap"]
    /\ UNCHANGED <<as_cfg, open_set, closed_set, g_scores, came_from,
                   iterations, as_cancel_requested, as_timed_out>>
    /\ AsFrame

\* BasePlanner.cancel(), called while a search is running
AStarCancel ==
    /\ as_pc = "search"
    /\ ~as_cancel_requested
    /\ as_cancel_requested' = TRUE
    /\ UNCHANGED <<as_cfg, as_pc, open_set, closed_set, g_scores, came_from,
                   iterations, as_path, as_last, as_timed_out>>
    /\ AsFrame

\* the wall clock passes PlannerConfig.timeout while a search is running
AStarTimeout ==
    /\ as_pc = "search"
    /\ ~as_timed_out
    /\ as_timed_out' = TRUE
    /\ UNCHANGED <<as_cfg, as_pc, open_set, closed_set, g_scores, came_from,
                   iterations, as_path, as_last, as_cancel_requested>>
    /\ AsFrame

\* the searches the model runs (lengths in mm)
NoBoundary == <<>>

NoObstacles == <<>>

Circle(c, r, m) == [center |-> c, radius |-> r, safety_margin |-> m]

Scenario(s, g, b, o, st, h, w2) ==
    [start |-> s, goal |-> g, boundary |-> b, obstacles |-> o,
     step_size |-> st, heuristic |-> h, weight2 |-> w2]

\* open plane, Manhattan heuristic at weight 0.5, goal off the lattice
ScOpenManhattan ==
    Scenario(<<0, 0>>, <<-17000, -5000>>, NoBoundary, NoObstacles, 5000, "manhattan", 1)

\* a corridor one lattice row wide; the goal lies outside the boundary
ScShortCorridor ==
    Scenario(<<0, 0>>, <<-20000, 0>>,
             << <<-2500, -2500>>, <<22500, -2500>>, <<22500, 2500>>, <<-2500, 2500>> >>,
             NoObstacles, 5000, "euclidean", 2)

\* a disc between start and goal, default settings
ScDisc ==
    Scenario(<<0, 0>>, <<20000, 0>>, NoBoundary,
             << Circle(<<10000, 0>>, 3000, 1000) >>, 5000, "euclidean", 2)

\* a disc inside a rectangular boundary
ScBoundedDisc ==
    Scenario(<<0, 0>>, <<15000, 5000>>,
             << <<-7500, -7500>>, <<22500, -7500>>, <<22500, 12500>>, <<-7500, 12500>> >>,
             << Circle(<<8000, 2000>>, 2000, 1000) >>, 5000, "euclidean", 2)

\* a corridor one lattice row wide and max_iterations + 2 steps of 4 mm
\* long; the goal lies outside the boundary
ScLongCorridor ==
    Scenario(<<0, 0>>, <<-1200, 0>>,
             << <<-2, -2>>, <<4 * (max_iterations + 2) - 2, -2>>,
                <<4 * (max_iterations + 2) - 2, 2>>, <<-2, 2>> >>,
             NoObstacles, 4, "euclidean", 2)

\* searches inside a rectangular boundary without obstacles, over a grid
\* of goals and three starts
ScGoalGrid ==
    {Scenario(s, <<5000 * i, 5000 * j>>,
              << <<-7500, -7500>>, <<22500, -7500>>, <<22500, 12500>>, <<-7500, 12500>> >>,
              NoObstacles, 5000, "euclidean", 2) :
        s \in {<<0, 0>>, <<5000, 5000>>, <<15000, -5000>>}, i \in -1..4, j \in -1..2}

CapScenarios == {ScLongCorridor, ScShortCorridor, ScDisc} \cup ScGoalGrid

AStarScenarios == {ScOpenManhattan, ScShortCorridor, ScDisc, ScBoundedDisc}

\* AStarPlanner.plan -> _astar_search is called with one of the scenarios
AStarBegin ==
    /\ as_pc = "idle"
    /\ \E cfg \in AStarScenarios : AStarEnter(cfg)
    /\ AsFrame

\* _astar_search is called on one of the searches that end at the cap,
\* by exhaustion of the heap, or at the goal
AStarBeginCap ==
    /\ as_pc = "idle"
    /\ \E cfg \in CapScenarios : AStarEnter(cfg)
    /\ AsFrame

AsIdle ==
    /\ as_cfg = ScDisc
    /\ as_pc = "idle"
    /\ open_set = <<>>
    /\ closed_set = {}
    /\ g_scores = <<>>
    /\ came_from = <<>>
    /\ iterations = 0
    /\ as_path = <<>>
    /\ as_last = [kind |-> "idle"]
    /\ as_cancel_requested = FALSE
    /\ as_timed_out = FALSE

\* searches on the open plane: no boundary, no obstacles, default step
\* size, heuristic and weight, the goals on a grid
OpenScenarios ==
    {Scenario(<<0, 0>>, <<gx, gy>>, NoBoundary, NoObstacles, 5000, "euclidean", 2) :
        gx \in {2500, 7500, 12500, 20000}, gy \in {0, 2500, 5000}}

\* AStarPlanner.plan -> _astar_search is called on the open plane
AStarBeginOpen ==
    /\ as_pc = "idle"
    /\ \E cfg \in OpenScenarios : AStarEnter(cfg)
    /\ AsFrame

\* on the open plane the heap never runs empty
AStarOpenNext == AStarBeginOpen \/ AStarIterate

\* AStarPlanner.set_heuristic_weight(weight), the weight given doubled
SetHeuristicWeight(cfg, weight2) == [cfg EXCEPT !.weight2 = Max2(0, weight2)]

\* _astar_search run from entry to return: the state it returns in, or the
\* state after BlockLen * BlockLen passes
AStarSearch(cfg) ==
    LET h_start == WeightedH(cfg, cfg.start)
    IN  AStarRuns(cfg,
            [pc |-> "search",
             open |-> HeapPush(<<>>, AStarNode(h_start, 0, h_start, cfg.start)),
             closed |-> {}, g |-> (cfg.start :> 0), came |-> <<>>,
             iters |-> 0, path |-> <<>>, last |-> [kind |-> "enter"]],
            BlockLen)

\* searches on the open plane with the Manhattan heuristic and steps of 2 m
WeightScenarios ==
    {Scenario(<<0, 0>>, g, NoBoundary, NoObstacles, 2000, "manhattan", 2) :
        g \in {<<-3600, 4800>>, <<4700, 3800>>, <<4000, 0>>, <<6000, 2000>>,
               <<-3800, -4600>>, <<2000, 6500>>}}

\* set_heuristic_weight(weight) followed by plan -> _astar_search
AStarBeginWeighted ==
    /\ as_pc = "idle"
    /\ \E cfg \in WeightScenarios, weight2 \in {-1, 0, 1, 2} :
         AStarEnter(SetHeuristicWeight(cfg, weight2))
    /\ AsFrame

\* on the open plane the heap never runs empty
AStarWeightedNext == AStarBeginWeighted \/ AStarIterate

AStarNext == AStarBegin \/ AStarIterate \/ AStarExit \/ AStarCancel \/ AStarTimeout

(***************************************************************************)
(* core/local_planner/dwa.py : DWAPlanner on a Multirotor vehicle model    *)
(*                                                                         *)
(* Units: lengths mm, speeds mm/s, time in tenths of a second, angles      *)
(* 1e-5 rad, yaw rates 1e-4 rad/s (so that w * dt is in angle units),      *)
(* sines and cosines scaled by 10000, costs in units of 1e-5.              *)
(***************************************************************************)
\* np.pi in angle units
PiU == 314159

\* DWAConfig defaults
v_resolution == 100

w_resolution == 1000

predict_time == 30

robot_radius == 500

goal_distance_threshold == 500

waypoint_lookahead == 3

\* cost weights in halves: heading, velocity, obstacle, goal 1.0; path 0.5
heading_weight == 2

velocity_weight == 2

obstacle_weight == 2

goal_weight == 2

path_weight == 1

\* obstacle_cost_gain 1.0: gain / distance[m] in cost units is
\* 10^8 / distance[mm]
obstacle_cost_gain == 100000000

\* LocalPlannerConfig.dt = 0.1 s
dt == 1

\* VehicleConstraints of DEFAULT_MULTIROTOR_CONFIG; the yaw limits are
\* np.radians(90.0) and np.radians(45.0)
max_speed == 15000

min_speed == 0

max_acceleration == 3000

max_deceleration == 4000

max_yaw_rate == 15708

max_yaw_acceleration == 7854

\* sin of an angle in [-pi/2, pi/2] by its Taylor polynomial of degree 7
SinPoly(t) ==
    LET a == Abs(t) \div 10
        x2 == (a * a) \div 10000
        c7 == 10000 - x2 \div 42
        c5 == 10000 - (x2 * c7) \div 200000
        c3 == 10000 - (x2 * c5) \div 60000
        s == (a * c3) \div 10000
    IN  IF t < 0 THEN -s ELSE s

\* np.sin for an angle in [-pi, pi]
SinQ(theta) ==
    IF theta > PiU \div 2 THEN SinPoly(PiU - theta)
    ELSE IF theta < -(PiU \div 2) THEN SinPoly(-PiU - theta)
    ELSE SinPoly(theta)

\* np.cos for an angle in [-pi, pi]
CosQ(theta) == SinPoly(PiU \div 2 - Abs(theta))

\* arctan of z / 10000 for 0 <= z <= 10000
AtanPoly(z) == (z * (78540 + (273 * (10000 - z)) \div 100)) \div 10000

\* np.arctan2(y, x)
Atan2Q(y, x) ==
    LET ax == Abs(x)
        ay == Abs(y)
        r0 == IF ax = 0 /\ ay = 0 THEN 0
              ELSE IF ay <= ax THEN AtanPoly((ay * 10000) \div ax)
              ELSE PiU \div 2 - AtanPoly((ax * 10000) \div ay)
        r1 == IF x < 0 THEN PiU - r0 ELSE r0
    IN  IF y < 0 THEN -r1 ELSE r1

\* np.linalg.norm of a planar difference
Norm2(p, q) == Hypot(p[1] - q[1], p[2] - q[2])

\* MultirotorModel._normalize_angle (one turn suffices for |w * dt| < pi)
NormalizeAngle(angle) ==
    IF angle > PiU THEN angle - 2 * PiU
    ELSE IF angle < -PiU THEN angle + 2 * PiU
    ELSE angle

\* VehicleState as the planner reads it: position, speed, heading, yaw_rate
VehicleState(pos, spd, hdg, yr) ==
    [position |-> pos, speed |-> spd, heading |-> hdg, yaw_rate |-> yr]

\* the loop of MultirotorModel.predict_trajectory: n further poses
RECURSIVE PredictSteps(_, _, _, _, _, _)
PredictSteps(x, y, theta, v, w, n) ==
    IF n = 0 THEN <<>>
    ELSE LET x1 == x + RoundDiv(v * CosQ(theta) * dt, 100000)
             y1 == y + RoundDiv(v * SinQ(theta) * dt, 100000)
             th1 == NormalizeAngle(theta + w * dt)
         IN  <<<<x1, y1>>>> \o PredictSteps(x1, y1, th1, v, w, n - 1)

\* MultirotorModel.predict_trajectory(velocity, dt, horizon)
PredictTrajectory(state, velocity) ==
    PredictSteps(state.position[1], state.position[2], state.heading,
                 velocity[1], velocity[2], predict_time \div dt)

\* np.arange(start, stop, step) for step > 0
Arange(start, stop, step) ==
    LET n == IF stop > start THEN (stop - start + step - 1) \div step ELSE 0
    IN  [k \in 1..n |-> start + (k - 1) * step]

\* DWAPlanner._calculate_dynamic_window: (v_min, v_max, w_min, w_max)
CalculateDynamicWindow(state) ==
    LET w_accel == (max_yaw_acceleration * dt) \div 10
    IN  [v_min |-> Max2(min_speed, state.speed - (max_deceleration * dt) \div 10),
         v_max |-> Min2(max_speed, state.speed + (max_acceleration * dt) \div 10),
         w_min |-> Max2(-max_yaw_rate, state.yaw_rate - w_accel),
         w_max |-> Min2(max_yaw_rate, state.yaw_rate + w_accel)]

\* the (v, w) pairs in the order the two sampling loops visit them
VelocitySamples(state) ==
    LET dw == CalculateDynamicWindow(state)
        v_samples == Arange(dw.v_min, dw.v_max + v_resolution, v_resolution)
        w_samples == Arange(dw.w_min, dw.w_max + w_resolution, w_resolution)
        nw == Len(w_samples)
    IN  [k \in 1..(Len(v_samples) * nw) |->
            <<v_samples[((k - 1) \div nw) + 1], w_samples[((k - 1) % nw) + 1]>>]

\* a cost value: float('inf') or a finite number of cost units
InfCost == [inf |-> TRUE, val |-> 0]

FiniteCost(c) == [inf |-> FALSE, val |-> c]

\* cost < min_cost on floats
CostLess(c, m) == ~c.inf /\ (m.inf \/ c.val < m.val)

\* an obstacle after _convert_obstacles: [x, y, radius]
DwaObstacle(pos, r) == [position |-> pos, radius |-> r]

\* effective_dist = dist - obs_radius - config.robot_radius
EffectiveDist(pos, obs) == Norm2(pos, obs.position) - obs.radius - robot_radius

\* DWAPlanner._calculate_heading_cost
CalculateHeadingCost(trajectory, goal, state) ==
    LET n == Len(trajectory)
        end_pos == trajectory[n]
        target_heading == Atan2Q(goal[2] - end_pos[2], goal[1] - end_pos[1])
        current_heading ==
            IF n >= 2
            THEN Atan2Q(end_pos[2] - trajectory[n - 1][2],
                        end_pos[1] - trajectory[n - 1][1])
            ELSE state.heading
        angle_diff == Abs(target_heading - current_heading)
    IN  Min2(angle_diff, 2 * PiU - angle_diff)

\* the least element of a non-empty set of numbers
SetMin(S) == CHOOSE m \in S : \A e \in S : m <= e

\* min_distance of _calculate_obstacle_cost: the least effective_dist over
\* all poses and obstacles (both sequences non-empty)
MinEffectiveDist(trajectory, obstacles) ==
    SetMin({EffectiveDist(trajectory[i], obstacles[j]) :
              i \in 1..Len(trajectory), j \in 1..Len(obstacles)})

\* mutant: a collision along the trajectory costs nothing instead of inf
ObstacleCostOf_NoInf(min_distance) ==
    IF min_distance <= 0 THEN FiniteCost(0)
    ELSE FiniteCost(obstacle_cost_gain \div min_distance)

\* the cost _calculate_obstacle_cost returns for a least distance
ObstacleCostOf(min_distance) ==
    IF min_distance <= 0 THEN InfCost
    ELSE FiniteCost(obstacle_cost_gain \div min_distance)

\* DWAPlanner._calculate_obstacle_cost
CalculateObstacleCost(trajectory, obstacles) ==
    IF obstacles = <<>> \/ trajectory = <<>> THEN FiniteCost(0)
    ELSE ObstacleCostOf(MinEffectiveDist(trajectory, obstacles))

\* DWAPlanner._calculate_goal_cost
CalculateGoalCost(trajectory, goal) ==
    100 * Norm2(goal, trajectory[Len(trajectory)])

\* distance from a pose to the nearest point of the (non-empty) global path
NearestPathDist(pos, path) ==
    SetMin({Norm2(pos, path[k]) : k \in 1..Len(path)})

RECURSIVE SumDeviation(_, _, _)
SumDeviation(trajectory, path, i) ==
    IF i > Len(trajectory) THEN 0
    ELSE NearestPathDist(trajectory[i], path) + SumDeviation(trajectory, path, i + 1)

\* DWAPlanner._calculate_path_cost
CalculatePathCost(trajectory, path) ==
    IF path = <<>> \/ trajectory = <<>> THEN 0
    ELSE (100 * SumDeviation(trajectory, path, 1)) \div Len(trajectory)

\* the weighted sum of _evaluate_trajectory, kept doubled
TotalCost(heading_cost, velocity_cost, obstacle_cost, goal_cost, path_cost) ==
    IF obstacle_cost.inf THEN InfCost
    ELSE FiniteCost(heading_weight * heading_cost
                    + velocity_weight * velocity_cost
                    + obstacle_weight * obstacle_cost.val
                    + goal_weight * goal_cost
                    + path_weight * path_cost)

\* DWAPlanner._evaluate_trajectory
EvaluateTrajectory(trajectory, velocity, state, goal, obstacles, path) ==
    IF trajectory = <<>> THEN InfCost
    ELSE TotalCost(CalculateHeadingCost(trajectory, goal, state),
                   100 * (max_speed - velocity[1]),
                   CalculateObstacleCost(trajectory, obstacles),
                   CalculateGoalCost(trajectory, goal),
                   CalculatePathCost(trajectory, path))

\* the cost of every sample, in the order of the sampling loops
SampleCosts(samples, state, goal, obstacles, path) ==
    [k \in 1..Len(samples) |->
        EvaluateTrajectory(PredictTrajectory(state, samples[k]), samples[k],
                           state, goal, obstacles, path)]

\* the two sampling loops of compute_velocity from sample k on, with
\* acc = [best_velocity, min_cost]:
\*   if cost < min_cost: min_cost = cost; best_velocity = (v, w)
RECURSIVE SelectBest(_, _, _, _)
SelectBest(samples, costs, k, acc) ==
    IF k > Len(samples) THEN acc
    ELSE IF CostLess(costs[k], acc.min_cost)
    THEN SelectBest(samples, costs, k + 1,
                    [best_velocity |-> samples[k], min_cost |-> costs[k]])
    ELSE SelectBest(samples, costs, k + 1, acc)

\* None
None == <<>>

\* DWAPlanner._update_current_goal (idx is the 0-based waypoint index)
UpdateCurrentGoal(path, idx) ==
    IF path = <<>> THEN None
    ELSE path[Min2(idx + waypoint_lookahead, Len(path) - 1) + 1]

\* DWAPlanner._is_goal_reached
DwaIsGoalReached(state, goal) ==
    goal # None /\ Norm2(state.position, goal) < goal_distance_threshold

\* LocalPlanner.advance_waypoint
AdvanceWaypoint(path, idx) ==
    IF idx < Len(path) - 1 THEN idx + 1 ELSE idx

\* DWAPlanner.compute_velocity as a function of the planner's fields and
\* its arguments: the returned tuple and the fields it leaves behind
ComputeVelocity(path, idx, state, obstacles) ==
    LET goal0 == UpdateCurrentGoal(path, idx)
        reached == DwaIsGoalReached(state, goal0)
        idx1 == IF reached THEN AdvanceWaypoint(path, idx) ELSE idx
        goal1 == IF reached THEN UpdateCurrentGoal(path, idx1) ELSE goal0
    IN  IF goal0 = None
        THEN [ret |-> <<0, 0>>, idx |-> idx, goal |-> None, sampled |-> FALSE]
        ELSE CHOOSE r \in UNION {
                 {[ret |-> SelectBest(samples, costs, 1,
                                      [best_velocity |-> <<0, 0>>,
                                       min_cost |-> InfCost]).best_velocity,
                   idx |-> idx1, goal |-> goal1, sampled |-> TRUE] :
                  costs \in {SampleCosts(samples, state, goal1, obstacles, path)}} :
                 samples \in {VelocitySamples(state)}} : TRUE

\* the first pose of the predicted trajectory of a command
OneStepPrediction(state, velocity) ==
    PredictSteps(state.position[1], state.position[2], state.heading,
                 velocity[1], velocity[2], 1)[1]

\* a pose lies strictly inside the effective radius of some obstacle
Penetrates(pos, obstacles) ==
    \E j \in 1..Len(obstacles) : EffectiveDist(pos, obstacles[j]) < 0

\* the global paths handed to the planner
PathFour == << <<0, 0>>, <<2000, 0>>, <<4000, 0>>, <<6000, 0>> >>

DwaPaths == {<<>>, PathFour}

\* the vehicle states handed to compute_velocity
StAtStart == VehicleState(<<0, 0>>, 0, 0, 0)

StNearFourth == VehicleState(<<5800, 100>>, 2000, 0, 0)

StPinched == VehicleState(<<-205, 0>>, 0, 0, 0)

StCruise == VehicleState(<<1000, 300>>, 2000, 0, 0)

\* the obstacles handed to compute_velocity
ObsBehind == DwaObstacle(<<-1000, 0>>, 300)

ObsAhead == DwaObstacle(<<800, 0>>, 300)

\* the calls of compute_velocity the model makes: (current_state, obstacles)
DwaCalls ==
    {<<StAtStart, <<>> >>,
     <<StNearFourth, <<ObsBehind>> >>,
     <<StPinched, <<ObsBehind>> >>,
     <<StPinched, <<ObsBehind, ObsAhead>> >>,
     <<StCruise, <<>> >>,
     <<StCruise, <<ObsBehind, ObsAhead>> >>}

\* LocalPlanner.set_global_path(path)
DwaSetGlobalPath ==
    /\ \E path \in DwaPaths :
         /\ global_path' = path
         /\ current_waypoint_idx' = 0
    /\ dwa_last' = [op |-> "set_global_path"]
    /\ UNCHANGED <<current_goal, cancel_requested, vehicle_state, dwa_ret>>
    /\ DwaFrame

\* BasePlanner.cancel()
DwaCancel ==
    /\ cancel_requested' = TRUE
    /\ dwa_last' = [op |-> "cancel"]
    /\ UNCHANGED <<global_path, current_waypoint_idx, current_goal,
                   vehicle_state, dwa_ret>>
    /\ DwaFrame

\* BasePlanner.reset()
DwaReset ==
    /\ cancel_requested' = FALSE
    /\ dwa_last' = [op |-> "reset"]
    /\ UNCHANGED <<global_path, current_waypoint_idx, current_goal,
                   vehicle_state, dwa_ret>>
    /\ DwaFrame

\* DWAPlanner.compute_velocity(current_state, obstacles), the vehicle model
\* being set
DwaComputeVelocity ==
    /\ \E call \in DwaCalls :
         \E state \in {call[1]}, obstacles \in {call[2]},
            r \in {ComputeVelocity(global_path, current_waypoint_idx, call[1], call[2])} :
             /\ vehicle_state' = state
             /\ current_waypoint_idx' = r.idx
             /\ current_goal' = r.goal
             /\ dwa_ret' = r.ret
             /\ dwa_last' = [op |-> "compute_velocity",
                             idx_before |-> current_waypoint_idx,
                             obstacles |-> obstacles,
                             sampled |-> r.sampled]
    /\ UNCHANGED <<global_path, cancel_requested>>
    /\ DwaFrame

\* DWAPlanner.__init__ with a Multirotor in its default state
DwaInit ==
    /\ global_path = <<>>
    /\ current_waypoint_idx = 0
    /\ current_goal = None
    /\ cancel_requested = FALSE
    /\ vehicle_state = VehicleState(<<0, 0>>, 0, 0, 0)
    /\ dwa_ret = <<0, 0>>
    /\ dwa_last = [op |-> "init"]

DwaNext ==
    DwaSetGlobalPath \/ DwaCancel \/ DwaReset \/ DwaComputeVelocity

(***************************************************************************)
(* core/collision/obstacle_manager.py : ObstacleManager over circular      *)
(* obstacles                                                               *)
(*                                                                         *)
(* Units: metres.  A position (lat, lon) is held as the pair               *)
(* (lat * 111111.0, lon * 111111.0); all positions lie within a few        *)
(* hundred metres of (0, 0), where cos(radians(lat)) is 1.                 *)
(***************************************************************************)
\* ObstacleManager.__init__(grid_size = 100.0)
grid_size == 100

\* int(a / b) for b > 0: truncation towards zero
TruncDiv(a, b) == IF a >= 0 THEN a \div b ELSE -((-a) \div b)

\* a CircularObstacle object: the fields a query or dataclass __eq__ reads
CircularObstacle(id, position, radius, safety_margin, active) ==
    [id |-> id, position |-> position, radius |-> radius,
     safety_margin |-> safety_margin, active |-> active]

\* CircularObstacle.effective_radius
EffectiveRadius(o) == o.radius + o.safety_margin

\* CircularObstacle.get_bounds: (min_lat, min_lon, max_lat, max_lon)
GetBounds(o) ==
    <<o.position[1] - EffectiveRadius(o), o.position[2] - EffectiveRadius(o),
      o.position[1] + EffectiveRadius(o), o.position[2] + EffectiveRadius(o)>>

\* the square of _calculate_distance(p1, p2)
DistanceSquared(p1, p2) ==
    (p2[1] - p1[1]) * (p2[1] - p1[1]) + (p2[2] - p1[2]) * (p2[2] - p1[2])

\* CircularObstacle.contains_point: distance <= effective_radius
ObstacleContainsPoint(o, point) ==
    DistanceSquared(point, o.position) <= EffectiveRadius(o) * EffectiveRadius(o)

\* f"obs_{n}"
AutoId(n) == <<"obs_0", "obs_1", "obs_2", "obs_3">>[n + 1]

\* d[k] = v on a dict
DictPut(d, k, v) == [x \in (DOMAIN d) \cup {k} |-> IF x = k THEN v ELSE d[x]]

\* del d[k]
DictDel(d, k) == [x \in (DOMAIN d) \ {k} |-> d[x]]

\* list.remove(e): the list without the first element equal to e
RemoveFirst(s, e) ==
    LET i == CHOOSE k \in 1..Len(s) : s[k] = e /\ \A j \in 1..(k - 1) : s[j] # e
    IN  [k \in 1..(Len(s) - 1) |-> IF k < i THEN s[k] ELSE s[k + 1]]

\* ObstacleManager._get_grid_cells_for_bounds
GetGridCellsForBounds(bounds) ==
    {<<i, j>> : i \in TruncDiv(bounds[1], grid_size)..TruncDiv(bounds[3], grid_size),
                j \in TruncDiv(bounds[2], grid_size)..TruncDiv(bounds[4], grid_size)}

\* ObstacleManager._add_to_spatial_grid
AddToSpatialGrid(grid, o) ==
    [cell \in (DOMAIN grid) \cup GetGridCellsForBounds(GetBounds(o)) |->
        IF cell \in GetGridCellsForBounds(GetBounds(o))
        THEN Append(IF cell \in DOMAIN grid THEN grid[cell] ELSE <<>>, o.id)
        ELSE grid[cell]]

\* ObstacleManager._remove_from_spatial_grid
RemoveFromSpatialGrid(grid, o) ==
    [cell \in DOMAIN grid |->
        IF cell \in GetGridCellsForBounds(GetBounds(o)) /\ SeqContains(grid[cell], o.id)
        THEN RemoveFirst(grid[cell], o.id)
        ELSE grid[cell]]

\* the fields of an ObstacleManager; obstacles and the values of
\* obstacle_dict are references to objects
Manager(obstacles, obstacle_dict, spatial_grid, next_id) ==
    [obstacles |-> obstacles, obstacle_dict |-> obstacle_dict,
     spatial_grid |-> spatial_grid, next_id |-> next_id]

\* the fields after ObstacleManager.__init__ and after clear_all
EmptyManager == Manager(<<>>, <<>>, <<>>, 0)

\* ObstacleManager.add_obstacle(obstacle) for the object with reference k:
\* the manager and the objects afterwards, and the id returned
AddObstacle(m, objs, k) ==
    LET auto == objs[k].id = ""
        id == IF auto THEN AutoId(m.next_id) ELSE objs[k].id
        o == [objs[k] EXCEPT !.id = id]
    IN  [m |-> Manager(Append(m.obstacles, k),
                       DictPut(m.obstacle_dict, id, k),
                       AddToSpatialGrid(m.spatial_grid, o),
                       IF auto THEN m.next_id + 1 ELSE m.next_id),
         objs |-> [objs EXCEPT ![k] = o],
         ret |-> id]

\* self.obstacles.remove(obstacle): dataclass equality compares the fields
RemoveEqual(obstacles, objs, k) ==
    LET i == CHOOSE n \in 1..Len(obstacles) :
                 /\ objs[obstacles[n]] = objs[k]
                 /\ \A j \in 1..(n - 1) : objs[obstacles[j]] # objs[k]
    IN  [n \in 1..(Len(obstacles) - 1) |->
            IF n < i THEN obstacles[n] ELSE obstacles[n + 1]]

\* ObstacleManager.remove_obstacle(obstacle_id)
RemoveObstacle(m, objs, obstacle_id) ==
    IF obstacle_id \notin DOMAIN m.obstacle_dict
    THEN [m |-> m, ret |-> FALSE]
    ELSE [m |-> Manager(RemoveEqual(m.obstacles, objs, m.obstacle_dict[obstacle_id]),
                        DictDel(m.obstacle_dict, obstacle_id),
                        RemoveFromSpatialGrid(m.spatial_grid,
                                              objs[m.obstacle_dict[obstacle_id]]),
                        m.next_id),
          ret |-> TRUE]

\* what a query gives back: a returned value or a raised exception
Returned(value) == [exception |-> "", value |-> value]

Raised(exception) == [exception |-> exception, value |-> FALSE]

\* ObstacleManager.get_all_obstacles
GetAllObstacles(m, objs) ==
    Returned(SelectSeq(m.obstacles, LAMBDA k : objs[k].active))

\* ObstacleManager._get_nearby_obstacles: the objects in the returned list
GetNearbyObstacles(m, point) ==
    LET i == TruncDiv(point[1], grid_size)
        j == TruncDiv(point[2], grid_size)
        cells == {<<i + di, j + dj>> : di \in {-1, 0, 1}, dj \in {-1, 0, 1}}
        nearby_ids == UNION {{m.spatial_grid[cell][n] :
                                n \in 1..Len(m.spatial_grid[cell])} :
                             cell \in cells \cap DOMAIN m.spatial_grid}
    IN  {m.obstacle_dict[obs_id] : obs_id \in nearby_ids \cap DOMAIN m.obstacle_dict}

\* ObstacleManager.check_point_collision
OmCheckPointCollision(m, objs, point) ==
    Returned(\E k \in GetNearbyObstacles(m, point) :
                 objs[k].active /\ ObstacleContainsPoint(objs[k], point))

\* ObstacleManager.check_segment_collision: _get_nearby_obstacles_for_segment
\* puts the nearby obstacles of each end point into a set, and an obstacle,
\* a dataclass with eq and without frozen, is unhashable
OmCheckSegmentCollision(m, objs, p1, p2) ==
    IF GetNearbyObstacles(m, p1) # {} \/ GetNearbyObstacles(m, p2) # {}
    THEN Raised("TypeError")
    ELSE Returned(FALSE)

\* the bounding boxes overlap
BoundsOverlap(obs_bounds, bounds) ==
    /\ obs_bounds[3] >= bounds[1]
    /\ obs_bounds[1] <= bounds[3]
    /\ obs_bounds[4] >= bounds[2]
    /\ obs_bounds[2] <= bounds[4]

\* ObstacleManager.find_obstacles_in_region
FindObstaclesInRegion(m, objs, bounds) ==
    Returned(SelectSeq(m.obstacles,
                       LAMBDA k : objs[k].active
                                  /\ BoundsOverlap(GetBounds(objs[k]), bounds)))

\* the loop of get_nearest_obstacle from list index n on; nearest is None
\* or a one-element tuple holding the nearest obstacle so far
RECURSIVE NearestFrom(_, _, _, _, _)
NearestFrom(obstacles, objs, point, n, nearest) ==
    IF n > Len(obstacles) THEN nearest
    ELSE IF /\ objs[obstacles[n]].active
            /\ \/ nearest = None
               \/ DistanceSquared(point, objs[obstacles[n]].position)
                    < DistanceSquared(point, objs[nearest[1]].position)
    THEN NearestFrom(obstacles, objs, point, n + 1, <<obstacles[n]>>)
    ELSE NearestFrom(obstacles, objs, point, n + 1, nearest)

\* ObstacleManager.get_nearest_obstacle(point), max_distance = inf
GetNearestObstacle(m, objs, point) ==
    Returned(NearestFrom(m.obstacles, objs, point, 1, None))

\* the objects the caller holds: two without an id and one with an id
CallerObstacles ==
    << CircularObstacle("", <<50, 50>>, 5, 1, TRUE),
       CircularObstacle("", <<50, 250>>, 5, 1, TRUE),
       CircularObstacle("obs_0", <<52, 50>>, 5, 1, TRUE) >>

\* the ids handed to remove_obstacle
CallerIds == {"obs_0", "obs_1", "none"}

\* the points handed to the queries
QueryPoints == {<<50, 50>>, <<50, 250>>, <<550, 550>>}

\* the regions handed to find_obstacles_in_region
QueryRegions == {<<0, 0, 100, 100>>, <<0, 200, 100, 300>>}

\* the list never grows beyond this length
MaxObstacles == 2

\* the manager the fields describe
OmManager == Manager(om_obstacles, om_obstacle_dict, om_spatial_grid, om_next_id)

\* the fields take the values of a manager
OmStore(m) ==
    /\ om_obstacles' = m.obstacles
    /\ om_obstacle_dict' = m.obstacle_dict
    /\ om_spatial_grid' = m.spatial_grid
    /\ om_next_id' = m.next_id

OmUnchanged == UNCHANGED <<om_obstacles, om_obstacle_dict, om_spatial_grid, om_next_id>>

\* add_obstacle(obstacle)
OmAddObstacle ==
    /\ Len(om_obstacles) < MaxObstacles
    /\ \E k \in 1..Len(om_objects) :
         \E r \in {AddObstacle(OmManager, om_objects, k)} :
             /\ OmStore(r.m)
             /\ om_objects' = r.objs
             /\ om_last' = [op |-> "add_obstacle", args |-> <<k>>,
                            result |-> Returned(r.ret)]
    /\ OmFrame

\* remove_obstacle(obstacle_id)
OmRemoveObstacle ==
    /\ \E obstacle_id \in CallerIds :
         \E r \in {RemoveObstacle(OmManager, om_objects, obstacle_id)} :
             /\ OmStore(r.m)
             /\ om_last' = [op |-> "remove_obstacle", args |-> <<obstacle_id>>,
                            result |-> Returned(r.ret)]
    /\ UNCHANGED om_objects
    /\ OmFrame

\* clear_all()
OmClearAll ==
    /\ OmStore(EmptyManager)
    /\ om_last' = [op |-> "clear_all", args |-> <<>>, result |-> Returned(None)]
    /\ UNCHANGED om_objects
    /\ OmFrame

\* the caller assigns obstacle.active on an object it holds
OmSetActive ==
    /\ \E k \in 1..Len(om_objects), active \in BOOLEAN :
         /\ om_objects[k].active # active
         /\ om_objects' = [om_objects EXCEPT ![k].active = active]
         /\ om_last' = [op |-> "set_active", args |-> <<k, active>>,
                        result |-> Returned(None)]
    /\ OmUnchanged
    /\ OmFrame

\* get_all_obstacles()
OmGetAllObstacles ==
    /\ om_last' = [op |-> "get_all_obstacles", args |-> <<>>,
                   result |-> GetAllObstacles(OmManager, om_objects)]
    /\ UNCHANGED om_objects
    /\ OmUnchanged
    /\ OmFrame

\* check_point_collision(point)
OmPointQuery ==
    /\ \E point \in QueryPoints :
         om_last' = [op |-> "check_point_collision", args |-> <<point>>,
                     result |-> OmCheckPointCollision(OmManager, om_objects, point)]
    /\ UNCHANGED om_objects
    /\ OmUnchanged
    /\ OmFrame

\* check_segment_collision(p1, p2)
OmSegmentQuery ==
    /\ \E p1 \in QueryPoints, p2 \in QueryPoints :
         om_last' = [op |-> "check_segment_collision", args |-> <<p1, p2>>,
                     result |-> OmCheckSegmentCollision(OmManager, om_objects, p1, p2)]
    /\ UNCHANGED om_objects
    /\ OmUnchanged
    /\ OmFrame

\* find_obstacles_in_region(bounds)
OmRegionQuery ==
    /\ \E bounds \in QueryRegions :
         om_last' = [op |-> "find_obstacles_in_region", args |-> <<bounds>>,
                     result |-> FindObstaclesInRegion(OmManager, om_objects, bounds)]
    /\ UNCHANGED om_objects
    /\ OmUnchanged
    /\ OmFrame

\* get_nearest_obstacle(point)
OmNearestQuery ==
    /\ \E point \in QueryPoints :
         om_last' = [op |-> "get_nearest_obstacle", args |-> <<point>>,
                     result |-> GetNearestObstacle(OmManager, om_objects, point)]
    /\ UNCHANGED om_objects
    /\ OmUnchanged
    /\ OmFrame

\* the manager that add_obstacle builds from the obstacles of a list, taken
\* in list order from index n on
RECURSIVE AddAll(_, _, _, _)
AddAll(m, objs, obstacles, n) ==
    IF n > Len(obstacles) THEN m
    ELSE AddAll(AddObstacle(m, objs, obstacles[n]).m, objs, obstacles, n + 1)

\* the manager holding the obstacles of the list other than object k
ManagerWithout(k) ==
    AddAll(EmptyManager, om_objects,
           SelectSeq(om_obstacles, LAMBDA r : r # k), 1)

\* the ids a grid holds for a cell
CellIds(grid, cell) == IF cell \in DOMAIN grid THEN grid[cell] ELSE <<>>

\* the id map and the grid are those add_obstacle builds from the list
IndexMatchesList ==
    \E m \in {AddAll(EmptyManager, om_objects, om_obstacles, 1)} :
        /\ DOMAIN om_obstacle_dict = DOMAIN m.obstacle_dict
        /\ \A id \in DOMAIN om_obstacle_dict :
             om_obstacle_dict[id] = m.obstacle_dict[id]
        /\ \A cell \in (DOMAIN om_spatial_grid) \cup (DOMAIN m.spatial_grid) :
             CellIds(om_spatial_grid, cell) = CellIds(m.spatial_grid, cell)

\* ObstacleManager.__init__, the caller holding its objects
OmInit ==
    /\ om_objects = CallerObstacles
    /\ om_obstacles = <<>>
    /\ om_obstacle_dict = <<>>
    /\ om_spatial_grid = <<>>
    /\ om_next_id = 0
    /\ om_last = [op |-> "init", args |-> <<>>, result |-> Returned(None)]

OmNext ==
    \/ OmAddObstacle
    \/ OmRemoveObstacle
    \/ OmClearAll
    \/ OmSetActive
    \/ OmGetAllObstacles
    \/ OmPointQuery
    \/ OmSegmentQuery
    \/ OmRegionQuery
    \/ OmNearestQuery

(***************************************************************************)
(* core/global_planner/grid_generator.py : GridSurveyGenerator             *)
(* Lengths are whole metres.  A geographic point is <<lat, lon>> given in   *)
(* metres north and east of a fixed reference (degrees multiplied by the   *)
(* transformer's metres-per-degree factors); a local point is <<x, y>> or  *)
(* <<x, y, z>>, east / north / up of the transformer's origin.             *)
(***************************************************************************)
\* SurveyConfig with the fields generate_survey_grid reads; altitude,
\* side_overlap, scan_angle and boundary_offset keep their default values
SurveyConfig(use_manual_spacing, manual_line_spacing, scan_pattern, entry_location, overshoot_distance, leadin_distance, add_takeoff, add_rtl) ==
    [altitude |-> 50, side_overlap |-> 60,
     use_manual_spacing |-> use_manual_spacing,
     manual_line_spacing |-> manual_line_spacing,
     scan_angle |-> 0, scan_pattern |-> scan_pattern,
     entry_location |-> entry_location, boundary_offset |-> 0,
     overshoot_distance |-> overshoot_distance,
     leadin_distance |-> leadin_distance,
     add_takeoff |-> add_takeoff, add_rtl |-> add_rtl]

\* SurveyConfig() with every field at its default
DefaultSurveyConfig == SurveyConfig(FALSE, 20, "ZIGZAG", "AUTO", 0, 0, TRUE, TRUE)

\* CameraConfig.get_ground_coverage, width only; the default sensor width
\* (13.2 mm) and focal length (8.8 mm) are in tenths of a millimetre
GetGroundCoverage(altitude) == (altitude * 132) \div 88

\* SurveyConfig.get_line_spacing
GetLineSpacing(config) ==
    IF config.use_manual_spacing THEN config.manual_line_spacing
    ELSE (GetGroundCoverage(config.altitude) * (100 - config.side_overlap)) \div 100

\* a / b for integers, b # 0, rounded to the nearest unit
SignedDiv(a, b) == IF b > 0 THEN RoundDiv(a, b) ELSE RoundDiv(-a, -b)

RECURSIVE SumComponent(_, _, _)
\* sum(p[c] for p in boundary)
SumComponent(boundary, c, k) ==
    IF k > Len(boundary) THEN 0
    ELSE boundary[k][c] + SumComponent(boundary, c, k + 1)

\* the origin of the CoordinateTransformer: the mean of the vertices
BoundaryCenter(boundary) ==
    <<SignedDiv(SumComponent(boundary, 1, 1), Len(boundary)),
      SignedDiv(SumComponent(boundary, 2, 1), Len(boundary))>>

\* CoordinateTransformer.geo_to_local: a three-component ENU vector
GeoToLocal(origin, lat, lon) == <<lon - origin[2], lat - origin[1], 0>>

\* CoordinateTransformer.local_to_geo
LocalToGeo(origin, x, y) == <<origin[1] + y, origin[2] + x>>

\* (cos, sin) of np.radians(angle); scan_angle is 0 in every configuration
CosSin(angle) == CASE angle = 0 -> <<1, 0>>

\* the rotation of _generate_scan_lines into the scan frame
RotateToScan(cs, pt) == <<cs[1] * pt[1] + cs[2] * pt[2], cs[1] * pt[2] - cs[2] * pt[1]>>

\* the rotation of _generate_scan_lines back to the local frame
RotateBack(cs, x, y) == <<cs[1] * x - cs[2] * y, cs[2] * x + cs[1] * y>>

RECURSIVE ScanlineEdges(_, _, _)
\* GridSurveyGenerator._scanline_intersect: the x of every edge that spans y
\* (lower end included, upper end excluded), in edge order
ScanlineEdges(polygon, y, i) ==
    IF i > Len(polygon) THEN <<>>
    ELSE LET p1 == polygon[i]
             p2 == polygon[(i % Len(polygon)) + 1]
             y1 == p1[2]
             y2 == p2[2]
             rest == ScanlineEdges(polygon, y, i + 1)
         IN  IF ((y1 <= y /\ y < y2) \/ (y2 <= y /\ y < y1)) /\ y2 # y1
             THEN <<p1[1] + SignedDiv((y - y1) * (p2[1] - p1[1]), y2 - y1)>> \o rest
             ELSE rest

ScanlineIntersect(polygon, y) == ScanlineEdges(polygon, y, 1)

RECURSIVE ListSort(_)
\* list.sort() on numbers
ListSort(s) ==
    IF s = <<>> THEN <<>>
    ELSE LET m == CHOOSE k \in 1..Len(s) : \A j \in 1..Len(s) : s[k] <= s[j]
         IN  <<s[m]>> \o ListSort([j \in 1..(Len(s) - 1) |-> IF j < m THEN s[j] ELSE s[j + 1]])

RECURSIVE PairSegments(_, _, _, _)
\* for i in range(0, len(intersections) - 1, 2): one segment per pair
\* (i is the 1-based index of the pair's first element)
PairSegments(cs, xs, y, i) ==
    IF i + 1 > Len(xs) THEN <<>>
    ELSE <<<<RotateBack(cs, xs[i], y), RotateBack(cs, xs[i + 1], y)>>>>
         \o PairSegments(cs, xs, y, i + 2)

RECURSIVE ScanLoop(_, _, _, _, _)
\* the while loop of _generate_scan_lines
ScanLoop(cs, rotated_polygon, y, y_max, spacing) ==
    IF ~(y < y_max) THEN <<>>
    ELSE LET intersections == ScanlineIntersect(rotated_polygon, y)
         IN  (IF Len(intersections) >= 2
              THEN PairSegments(cs, ListSort(intersections), y, 1)
              ELSE <<>>)
             \o ScanLoop(cs, rotated_polygon, y + spacing, y_max, spacing)

\* GridSurveyGenerator._generate_scan_lines (spacing even and positive)
GenerateScanLines(polygon, spacing, angle) ==
    LET cs == CosSin(angle)
        rotated_polygon == [k \in 1..Len(polygon) |-> RotateToScan(cs, polygon[k])]
        y_coords == {rotated_polygon[k][2] : k \in 1..Len(polygon)}
        y_min == CHOOSE m \in y_coords : \A e \in y_coords : m <= e
        y_max == CHOOSE m \in y_coords : \A e \in y_coords : m >= e
    IN  ScanLoop(cs, rotated_polygon, y_min + spacing \div 2, y_max, spacing)

RECURSIVE ExtendLines(_, _, _)
\* the loops of _connect_scan_lines over enumerate(scan_lines); i is 0-based
ExtendLines(scan_lines, pattern, i) ==
    IF i >= Len(scan_lines) THEN <<>>
    ELSE LET p1 == scan_lines[i + 1][1]
             p2 == scan_lines[i + 1][2]
         IN  (IF pattern = "ZIGZAG"
              THEN (IF i % 2 = 0 THEN <<p1, p2>> ELSE <<p2, p1>>)
              ELSE <<p1, p2>>)
             \o ExtendLines(scan_lines, pattern, i + 1)

\* list.reverse()
ListReverse(s) == [k \in 1..Len(s) |-> s[Len(s) + 1 - k]]

\* np.linalg.norm(a - b): numpy refuses to broadcast a two-component
\* array against a three-component one
NormOfDifference(a, b) ==
    IF Len(a) # Len(b)
    THEN Raised("ValueError: operands could not be broadcast together")
    ELSE Returned(Hypot(a[1] - b[1], a[2] - b[2]))

\* GridSurveyGenerator._connect_scan_lines
ConnectScanLines(origin, scan_lines, pattern, entry, home) ==
    IF scan_lines = <<>> THEN Returned(<<>>)
    ELSE LET wps == ExtendLines(scan_lines, pattern, 0)
         IN  IF entry = "HOME_CLOSEST" /\ home # None
             THEN LET home_local == GeoToLocal(origin, home[1], home[2])
                      dist_first == NormOfDifference(wps[1], home_local)
                      dist_last == NormOfDifference(wps[Len(wps)], home_local)
                  IN  IF dist_first.exception # "" THEN Raised(dist_first.exception)
                      ELSE IF dist_last.exception # "" THEN Raised(dist_last.exception)
                      ELSE IF dist_last.value < dist_first.value
                           THEN Returned(ListReverse(wps))
                           ELSE Returned(wps)
             ELSE Returned(wps)

RECURSIVE OvershootLoop(_, _, _, _)
\* the loop of _apply_overshoot_leadin; i is the 1-based index of a pair
OvershootLoop(wps, overshoot, leadin, i) ==
    IF i + 1 > Len(wps) THEN <<>>
    ELSE LET p1 == wps[i]
             p2 == wps[i + 1]
             dx == p2[1] - p1[1]
             dy == p2[2] - p1[2]
             length == Hypot(dx, dy)
             \* unit_dir * d
             along(d) == <<SignedDiv(dx * d, length), SignedDiv(dy * d, length)>>
         IN  (IF length > 0
              THEN (IF leadin > 0
                    THEN <<<<p1[1] - along(leadin)[1], p1[2] - along(leadin)[2]>>>>
                    ELSE <<>>)
                   \o <<p1, p2>>
                   \o (IF overshoot > 0
                       THEN <<<<p2[1] + along(overshoot)[1], p2[2] + along(overshoot)[2]>>>>
                       ELSE <<>>)
              ELSE <<p1, p2>>)
             \o OvershootLoop(wps, overshoot, leadin, i + 2)

\* GridSurveyGenerator._apply_overshoot_leadin
ApplyOvershootLeadin(wps, overshoot, leadin) ==
    IF wps = <<>> \/ (overshoot <= 0 /\ leadin <= 0) THEN wps
    ELSE OvershootLoop(wps, overshoot, leadin, 1)

\* GridSurveyGenerator._apply_obstacle_avoidance
ApplyObstacleAvoidance(wps, obstacles) == wps

\* PlannerResult with the fields a caller of generate_survey_grid reads
PlannerResult(status, wps, iters, message) ==
    [status |-> status, waypoints |-> wps, iterations |-> iters, message |-> message]

\* PlannerResult() before any planning
IdleResult == PlannerResult("IDLE", <<>>, 0, "")

\* the body of the try block of generate_survey_grid: the exception it
\* raises ("" for none), self._scan_lines when it ends, and the geographic
\* waypoints
SurveyTry(old_scan_lines, config, boundary, home_position, obstacles) ==
    IF Len(boundary) < 3
    THEN [exception |-> "polygon needs at least 3 vertices",
          scan_lines |-> old_scan_lines, waypoints |-> <<>>]
    ELSE IF \E k \in 1..Len(boundary) : Len(boundary[k]) # 2
    THEN [exception |-> "too many values to unpack",
          scan_lines |-> old_scan_lines, waypoints |-> <<>>]
    ELSE
    LET origin == BoundaryCenter(boundary)
        boundary_local == [k \in 1..Len(boundary) |->
                             GeoToLocal(origin, boundary[k][1], boundary[k][2])]
        line_spacing == GetLineSpacing(config)
        scan_lines == GenerateScanLines(boundary_local, line_spacing, config.scan_angle)
        connected == ConnectScanLines(origin, scan_lines, config.scan_pattern,
                                      config.entry_location, home_position)
    IN  IF connected.exception # ""
        THEN [exception |-> connected.exception,
              scan_lines |-> scan_lines, waypoints |-> <<>>]
        ELSE
        LET extended == IF config.overshoot_distance > 0 \/ config.leadin_distance > 0
                        THEN ApplyOvershootLeadin(connected.value,
                                                  config.overshoot_distance,
                                                  config.leadin_distance)
                        ELSE connected.value
            waypoints_local == IF obstacles # <<>>
                               THEN ApplyObstacleAvoidance(extended, obstacles)
                               ELSE extended
            survey == [k \in 1..Len(waypoints_local) |->
                         LocalToGeo(origin, waypoints_local[k][1], waypoints_local[k][2])
                         \o <<config.altitude>>]
            bookend == <<<<home_position[1], home_position[2], config.altitude>>>>
            takeoff == IF config.add_takeoff /\ home_position # None
                       THEN bookend ELSE <<>>
            rtl == IF config.add_rtl /\ home_position # None
                   THEN bookend ELSE <<>>
        IN  [exception |-> "", scan_lines |-> scan_lines,
             waypoints |-> takeoff \o survey \o rtl]

\* an except clause that returns the failed result without touching _status
SurveyExcept_KeepStatus(status, scan_lines, exception) ==
    [status |-> status, scan_lines |-> scan_lines,
     result |-> PlannerResult("FAILED", <<>>, 0, "Survey Grid failed: " \o exception)]

\* the except clause of generate_survey_grid
SurveyExcept(status, scan_lines, exception) ==
    [status |-> "FAILED", scan_lines |-> scan_lines,
     result |-> PlannerResult("FAILED", <<>>, 0, "Survey Grid failed: " \o exception)]

\* GridSurveyGenerator.generate_survey_grid: the planner's _status and
\* _scan_lines when the call ends, and the result it returns
GenerateSurveyGrid(old_scan_lines, config, boundary, home_position, obstacles) ==
    LET status == "PLANNING"
        t == SurveyTry(old_scan_lines, config, boundary, home_position, obstacles)
    IN  IF t.exception # ""
        THEN SurveyExcept(status, t.scan_lines, t.exception)
        ELSE [status |-> "SUCCESS", scan_lines |-> t.scan_lines,
              result |-> PlannerResult("SUCCESS", t.waypoints, Len(t.scan_lines),
                                       "generated " \o ToString(Len(t.waypoints))
                                       \o " waypoints")]

\* the 100 m square of the reference scenario, as (lat, lon) vertices
Square100 == <<<<0, 0>>, <<0, 100>>, <<100, 100>>, <<100, 0>>>>

\* a strip 8 m high: less than half of every line spacing used
ThinStrip == <<<<0, 0>>, <<0, 100>>, <<8, 100>>, <<8, 0>>>>

\* a triangle with slanted edges
Triangle == <<<<0, 0>>, <<0, 120>>, <<60, 60>>>>

\* a concave region: a bar on top with a leg down to lat 0 on the east side
\* and a spike whose tip (lat 50, lon 20) points down on the west side
SpikedRegion ==
    <<<<66, 0>>, <<50, 20>>, <<66, 44>>, <<66, 80>>, <<0, 80>>, <<0, 100>>,
      <<100, 100>>, <<100, 0>>>>

\* the boundaries a caller passes: regions, a two-vertex boundary and a
\* boundary one of whose vertices carries an altitude as third component
SurveyBoundaries ==
    {Square100, ThinStrip, Triangle, SpikedRegion,
     <<<<0, 0>>, <<0, 100>>>>,
     <<<<0, 0, 50>>, <<0, 100>>, <<100, 100>>, <<100, 0>>>>}

\* home_position: None or a point south of the regions
SurveyHomes == {None, <<-20, 0>>}

\* obstacles: None or empty, or a circle in the middle of the square
SurveyObstacleLists == {<<>>, <<Circle(<<50, 50>>, 5, 0)>>}

\* the configurations a GridSurveyGenerator is constructed with
SurveyConfigs ==
    {DefaultSurveyConfig} \cup
    {SurveyConfig(TRUE, s, p, e, ol[1], ol[2], b, b) :
        s \in {20, 40}, p \in {"ZIGZAG", "PARALLEL"},
        e \in {"AUTO", "HOME_CLOSEST"},
        ol \in {<<0, 0>>, <<5, 0>>, <<0, 5>>}, b \in BOOLEAN}

\* GridSurveyGenerator.__init__
GsConstruct ==
    /\ \E config \in SurveyConfigs : gs_config' = config
    /\ gs_status' = "IDLE"
    /\ gs_scan_lines' = <<>>
    /\ gs_result' = IdleResult
    /\ gs_last' = [op |-> "init", boundary |-> <<>>, home_position |-> None,
                   obstacles |-> <<>>]
    /\ GsFrame

\* GridSurveyGenerator.generate_survey_grid
GsGenerateSurveyGrid ==
    /\ \E boundary \in SurveyBoundaries, home_position \in SurveyHomes,
          obstacles \in SurveyObstacleLists :
          \E r \in {GenerateSurveyGrid(gs_scan_lines, gs_config, boundary,
                                       home_position, obstacles)} :
             /\ gs_status' = r.status
             /\ gs_scan_lines' = r.scan_lines
             /\ gs_result' = r.result
             /\ gs_last' = [op |-> "generate_survey_grid", boundary |-> boundary,
                            home_position |-> home_position,
                            obstacles |-> obstacles]
    /\ UNCHANGED gs_config
    /\ GsFrame

\* BasePlanner.reset
GsReset ==
    /\ gs_status' = "IDLE"
    /\ gs_last' = [gs_last EXCEPT !.op = "reset"]
    /\ UNCHANGED <<gs_config, gs_scan_lines, gs_result>>
    /\ GsFrame

GsInit ==
    /\ gs_config = DefaultSurveyConfig
    /\ gs_status = "IDLE"
    /\ gs_scan_lines = <<>>
    /\ gs_result = IdleResult
    /\ gs_last = [op |-> "init", boundary |-> <<>>, home_position |-> None,
                  obstacles |-> <<>>]

GsNext == GsConstruct \/ GsGenerateSurveyGrid \/ GsReset

(***************************************************************************)
(* core/global_planner/zigzag_grid_generator_integration.py :              *)
(* ZigzagGridGenerator.  Same units as above: whole metres, geographic     *)
(* points as <<lat, lon>> in metres north and east of a reference.         *)
(***************************************************************************)
\* ZigzagSurveyConfig with the fields validate and the spacing read; the
\* other fields keep their defaults
ZigzagSurveyConfig(altitude, side_overlap) ==
    [altitude |-> altitude, speed |-> 5, front_overlap |-> 80,
     side_overlap |-> side_overlap, scan_angle |-> 0,
     min_altitude |-> 5, max_altitude |-> 120]

\* ZigzagSurveyConfig.validate: the ValueError it raises, "" for none
ZigzagValidate(config) ==
    IF config.altitude <= 0 THEN "altitude must be positive"
    ELSE IF ~(config.min_altitude <= config.altitude
              /\ config.altitude <= config.max_altitude)
    THEN "altitude out of range"
    ELSE IF config.speed <= 0 THEN "speed must be positive"
    ELSE IF ~(0 <= config.front_overlap /\ config.front_overlap < 100)
    THEN "front overlap out of range"
    ELSE IF ~(0 <= config.side_overlap /\ config.side_overlap < 100)
    THEN "side overlap out of range"
    ELSE ""

\* CameraCalculator.calculate_spacing_from_overlap, line spacing only, for
\* the default camera (sensor width 13.2 mm, focal length 8.8 mm)
CalculateSpacingFromOverlap(altitude, side_overlap) ==
    (((altitude * 132) \div 88) * (100 - side_overlap)) \div 100

\* ZigzagGridGenerator.__init__: _line_spacing
ZigzagLineSpacing(config, camera_given) ==
    IF camera_given
    THEN CalculateSpacingFromOverlap(config.altitude, config.side_overlap)
    ELSE 30

\* ZigzagGridGenerator._project_and_rotate: rotated points and (lat0, lon0)
ProjectAndRotate(corners, angle_deg) ==
    LET lat0 == SignedDiv(SumComponent(corners, 1, 1), Len(corners))
        lon0 == SignedDiv(SumComponent(corners, 2, 1), Len(corners))
        cs == CosSin(angle_deg)
    IN  [pts_rot |-> [k \in 1..Len(corners) |->
                        LET x == corners[k][2] - lon0
                            y == corners[k][1] - lat0
                        IN  <<cs[1] * x - cs[2] * y, cs[2] * x + cs[1] * y>>],
         lat0 |-> lat0, lon0 |-> lon0, cs |-> cs]

RECURSIVE IntersectEdges(_, _, _)
\* the loop of _intersect_line_polygon: both ends of an edge included
IntersectEdges(pts, y, i) ==
    IF i > Len(pts) THEN <<>>
    ELSE LET x1 == pts[i][1]
             y1 == pts[i][2]
             x2 == pts[(i % Len(pts)) + 1][1]
             y2 == pts[(i % Len(pts)) + 1][2]
             rest == IntersectEdges(pts, y, i + 1)
         IN  IF ((y1 <= y /\ y <= y2) \/ (y2 <= y /\ y <= y1)) /\ y2 # y1
             THEN <<x1 + SignedDiv((y - y1) * (x2 - x1), y2 - y1)>> \o rest
             ELSE rest

\* ZigzagGridGenerator._intersect_line_polygon
IntersectLinePolygon(pts, y) == ListSort(IntersectEdges(pts, y, 1))

\* ZigzagGridGenerator._rotate_back_to_geographic
RotateBackToGeographic(cs, xr, yr, lat0, lon0) ==
    <<(cs[1] * yr - cs[2] * xr) + lat0, (cs[1] * xr + cs[2] * yr) + lon0>>

\* math.ceil(a / b) for b > 0
CeilDiv(a, b) == -((-a) \div b)

\* a direction rule that flies every line left to right
GoLeftToRight_Always(li, region_idx, start_from_left) == TRUE

\* the scan direction of line li in generate_zigzag_grid
GoLeftToRight(li, region_idx, start_from_left) ==
    LET effective_idx == li + (IF ~start_from_left THEN region_idx ELSE 0)
    IN  effective_idx % 2 = 0

RECURSIVE ZigzagLines(_, _, _, _, _, _, _, _)
\* the loop over li of generate_zigzag_grid: the list of pairs of waypoints,
\* one pair per line that crosses the polygon
ZigzagLines(pr, minY, maxY, line_spacing, total_lines, region_idx, start_from_left, li) ==
    IF li >= total_lines THEN <<>>
    ELSE LET y0 == minY + li * line_spacing
             y == IF y0 > maxY THEN maxY ELSE y0
             xs == IntersectLinePolygon(pr.pts_rot, y)
             go_left_to_right == GoLeftToRight(li, region_idx, start_from_left)
             a == RotateBackToGeographic(pr.cs, xs[1], y, pr.lat0, pr.lon0)
             b == RotateBackToGeographic(pr.cs, xs[Len(xs)], y, pr.lat0, pr.lon0)
             rest == ZigzagLines(pr, minY, maxY, line_spacing, total_lines,
                                 region_idx, start_from_left, li + 1)
         IN  IF Len(xs) < 2 THEN rest
             ELSE <<(IF go_left_to_right THEN <<a, b>> ELSE <<b, a>>)>> \o rest

RECURSIVE FlattenLines(_)
\* waypoints: the points of the scan lines, in order
FlattenLines(lines) ==
    IF lines = <<>> THEN <<>> ELSE lines[1] \o FlattenLines(Tail(lines))

\* ZigzagSurveyResult with the fields a caller reads
ZigzagSurveyResult(success, message, scan_lines) ==
    [success |-> success, message |-> message,
     waypoints |-> FlattenLines(scan_lines), scan_lines |-> scan_lines]

\* ZigzagGridGenerator.generate_zigzag_grid
GenerateZigzagGrid(config, line_spacing, corners, region_idx, start_from_left) ==
    IF ZigzagValidate(config) # ""
    THEN ZigzagSurveyResult(FALSE, "generation failed: " \o ZigzagValidate(config), <<>>)
    ELSE IF Len(corners) < 3
    THEN ZigzagSurveyResult(FALSE, "at least 3 corners are needed", <<>>)
    ELSE LET pr == ProjectAndRotate(corners, config.scan_angle)
             ys == {pr.pts_rot[k][2] : k \in 1..Len(corners)}
             margin == line_spacing \div 10
             minY == (CHOOSE m \in ys : \A e \in ys : m <= e) - margin
             maxY == (CHOOSE m \in ys : \A e \in ys : m >= e) + margin
             total_lines == Max2(1, CeilDiv(maxY - minY, line_spacing) + 1)
         IN  ZigzagSurveyResult(TRUE, "zigzag grid generated",
                                ZigzagLines(pr, minY, maxY, line_spacing, total_lines,
                                            region_idx, start_from_left, 0))

\* the configurations a ZigzagGridGenerator is constructed with
ZigzagConfigs ==
    {ZigzagSurveyConfig(50, 60), ZigzagSurveyConfig(100, 60),
     ZigzagSurveyConfig(0, 60)}

\* the regions a caller passes: the 100 m square, a triangle whose apex
\* lies 57 m north of its base, the concave region and a two-corner list
ZigzagCorners ==
    {Square100, <<<<0, 0>>, <<0, 114>>, <<57, 57>>>>, SpikedRegion,
     <<<<0, 0>>, <<0, 100>>>>}

\* ZigzagGridGenerator.__init__
ZzConstruct ==
    /\ \E config \in ZigzagConfigs, camera_given \in BOOLEAN :
          /\ zz_config' = config
          /\ zz_line_spacing' = ZigzagLineSpacing(config, camera_given)
    /\ zz_result' = ZigzagSurveyResult(FALSE, "", <<>>)
    /\ zz_last' = [op |-> "init", corners |-> <<>>, region_idx |-> 0,
                   start_from_left |-> TRUE]
    /\ ZzFrame

\* ZigzagGridGenerator.generate_zigzag_grid
ZzGenerateZigzagGrid ==
    /\ \E corners \in ZigzagCorners, region_idx \in 0..3,
          start_from_left \in BOOLEAN :
          /\ zz_result' = GenerateZigzagGrid(zz_config, zz_line_spacing, corners,
                                             region_idx, start_from_left)
          /\ zz_last' = [op |-> "generate_zigzag_grid", corners |-> corners,
                         region_idx |-> region_idx,
                         start_from_left |-> start_from_left]
    /\ UNCHANGED <<zz_config, zz_line_spacing>>
    /\ ZzFrame

ZzInit ==
    /\ zz_config = ZigzagSurveyConfig(50, 60)
    /\ zz_line_spacing = 30
    /\ zz_result = ZigzagSurveyResult(FALSE, "", <<>>)
    /\ zz_last = [op |-> "init", corners |-> <<>>, region_idx |-> 0,
                  start_from_left |-> TRUE]

ZzNext == ZzConstruct \/ ZzGenerateZigzagGrid

(***************************************************************************)
(* mission/waypoint.py : QGC WPL 110 text of a WaypointSequence             *)
(* Full waypoints: lat and lon are integers in units of 1e-7 degree, alt    *)
(* and param1..param4 are integers in thousandths.  Text lines are strings, *)
(* formatted and parsed character by character.                            *)
(***************************************************************************)
NAV_LOITER_TIME == 19

DO_CHANGE_SPEED == 178

DO_SET_HOME == 179

\* the values of MAVCommand
MAVCommandValues ==
    {16, 17, 18, 19, 20, 21, 22, 112, 114, 115, 178, 179, 181, 182, 183, 184,
     201, 203, 205, 206}

\* CoordinateFrame
GLOBAL == 0

GLOBAL_RELATIVE_ALT == 3

CoordinateFrameValues == 0..11

\* decimal places carried by lat/lon and by alt/param values of the model
LatLonScale == 7

MilliScale == 3

\* Waypoint(seq, command, lat, lon, alt, frame, param1..4, current, autocontinue)
FullWaypoint(seq, command, lat, lon, alt, frame, param1, param2, param3, param4, current, autocontinue) ==
    [seq |-> seq, command |-> command, lat |-> lat, lon |-> lon, alt |-> alt,
     frame |-> frame, param1 |-> param1, param2 |-> param2,
     param3 |-> param3, param4 |-> param4, current |-> current,
     autocontinue |-> autocontinue]

create_home_waypoint(lat, lon, alt) ==
    FullWaypoint(0, DO_SET_HOME, lat, lon, alt, GLOBAL_RELATIVE_ALT,
                 0, 0, 0, 0, 1, 1)

create_takeoff_waypoint(lat, lon, alt, seq) ==
    FullWaypoint(seq, NAV_TAKEOFF, lat, lon, alt, GLOBAL_RELATIVE_ALT,
                 0, 0, 0, 0, 0, 1)

create_navigation_waypoint(lat, lon, alt, seq) ==
    FullWaypoint(seq, NAV_WAYPOINT, lat, lon, alt, GLOBAL_RELATIVE_ALT,
                 0, 0, 0, 0, 0, 1)

create_loiter_waypoint(lat, lon, alt, duration, seq) ==
    FullWaypoint(seq, NAV_LOITER_TIME, lat, lon, alt, GLOBAL_RELATIVE_ALT,
                 duration, 0, 0, 0, 0, 1)

create_rtl_waypoint(seq) ==
    FullWaypoint(seq, NAV_RETURN_TO_LAUNCH, 0, 0, 0, GLOBAL_RELATIVE_ALT,
                 0, 0, 0, 0, 0, 1)

create_change_speed_command(speed, seq) ==
    FullWaypoint(seq, DO_CHANGE_SPEED, 0, 0, 0, GLOBAL_RELATIVE_ALT,
                 0, speed, 0, 0, 0, 1)

RECURSIVE Pow10(_)
Pow10(n) == IF n <= 0 THEN 1 ELSE 10 * Pow10(n - 1)

RECURSIVE PadZeros(_, _)
PadZeros(s, width) == IF Len(s) >= width THEN s ELSE PadZeros("0" \o s, width)

RECURSIVE StripZeros(_)
StripZeros(s) ==
    IF Len(s) > 1 /\ SubSeq(s, Len(s), Len(s)) = "0"
    THEN StripZeros(SubSeq(s, 1, Len(s) - 1))
    ELSE s

\* f"{v:.<digits>f}" of a value held with <scale> decimal places: rounded to
\* <digits> places (a decimal tie has no exact binary float, the sets of
\* inputs below hold none), sign kept even when the digits are all zero
FormatFixed(v, scale, digits) ==
    LET unit == Pow10(scale - digits)
        r == (Abs(v) \div unit) + (IF 2 * (Abs(v) % unit) >= unit THEN 1 ELSE 0)
    IN  (IF v < 0 THEN "-" ELSE "")
        \o ToString(r \div Pow10(digits)) \o "."
        \o PadZeros(ToString(r % Pow10(digits)), digits)

\* f"{v}" of a float: the shortest decimal that reads back as v
FormatRepr(v, scale) ==
    (IF v < 0 THEN "-" ELSE "")
    \o ToString(Abs(v) \div Pow10(scale)) \o "."
    \o StripZeros(PadZeros(ToString(Abs(v) % Pow10(scale)), scale))

\* Waypoint.to_qgc_line
ToQgcLine(wp) ==
    ToString(wp.seq) \o "\t" \o ToString(wp.current) \o "\t"
    \o ToString(wp.frame) \o "\t" \o ToString(wp.command) \o "\t"
    \o FormatRepr(wp.param1, MilliScale) \o "\t"
    \o FormatRepr(wp.param2, MilliScale) \o "\t"
    \o FormatRepr(wp.param3, MilliScale) \o "\t"
    \o FormatRepr(wp.param4, MilliScale) \o "\t"
    \o FormatFixed(wp.lat, LatLonScale, 6) \o "\t"
    \o FormatFixed(wp.lon, LatLonScale, 6) \o "\t"
    \o FormatFixed(wp.alt, MilliScale, 2) \o "\t"
    \o ToString(wp.autocontinue)

\* str.strip() for blanks
RECURSIVE Strip(_)
Strip(s) ==
    IF Len(s) > 0 /\ SubSeq(s, 1, 1) = " " THEN Strip(SubSeq(s, 2, Len(s)))
    ELSE IF Len(s) > 0 /\ SubSeq(s, Len(s), Len(s)) = " "
         THEN Strip(SubSeq(s, 1, Len(s) - 1))
    ELSE s

StartsWith(s, prefix) ==
    Len(s) >= Len(prefix) /\ SubSeq(s, 1, Len(prefix)) = prefix

\* str.split('\t'): the fields between tabs, from position i on
RECURSIVE SplitTabs(_, _, _, _)
SplitTabs(s, i, start, acc) ==
    IF i > Len(s) THEN Append(acc, SubSeq(s, start, Len(s)))
    ELSE IF SubSeq(s, i, i) = "\t"
         THEN SplitTabs(s, i + 1, i + 1, Append(acc, SubSeq(s, start, i - 1)))
         ELSE SplitTabs(s, i + 1, start, acc)

DigitValue(c) ==
    CASE c = "0" -> 0 [] c = "1" -> 1 [] c = "2" -> 2 [] c = "3" -> 3
      [] c = "4" -> 4 [] c = "5" -> 5 [] c = "6" -> 6 [] c = "7" -> 7
      [] c = "8" -> 8 [] c = "9" -> 9 [] OTHER -> -1

\* value of a string of decimal digits, -1 when it is empty or holds
\* another character
RECURSIVE DigitsValue(_, _, _)
DigitsValue(s, i, acc) ==
    IF Len(s) = 0 THEN -1
    ELSE IF i > Len(s) THEN acc
    ELSE IF DigitValue(SubSeq(s, i, i)) < 0 THEN -1
    ELSE DigitsValue(s, i + 1, 10 * acc + DigitValue(SubSeq(s, i, i)))

\* int(text): Returned(n) or Raised("ValueError")
ParseInt(s) ==
    LET neg == StartsWith(s, "-")
        body == IF neg THEN SubSeq(s, 2, Len(s)) ELSE s
        n == DigitsValue(body, 1, 0)
    IN  IF n < 0 THEN Raised("ValueError")
        ELSE Returned(IF neg THEN -n ELSE n)

\* position of the first "." of s, 0 when there is none
RECURSIVE DotPos(_, _)
DotPos(s, i) ==
    IF i > Len(s) THEN 0
    ELSE IF SubSeq(s, i, i) = "." THEN i ELSE DotPos(s, i + 1)

\* float(text) as a value with <scale> decimal places; decimal places of
\* the text beyond that resolution are dropped: Returned(v) or
\* Raised("ValueError")
ParseFloat(s, scale) ==
    LET neg == StartsWith(s, "-")
        body == IF neg THEN SubSeq(s, 2, Len(s)) ELSE s
        dot == DotPos(body, 1)
        ipart == IF dot = 0 THEN body ELSE SubSeq(body, 1, dot - 1)
        fpart == IF dot = 0 THEN "0" ELSE SubSeq(body, dot + 1, Len(body))
        kept == IF Len(fpart) > scale THEN SubSeq(fpart, 1, scale) ELSE fpart
        i == DigitsValue(ipart, 1, 0)
        f == DigitsValue(kept, 1, 0)
    IN  IF i < 0 \/ f < 0 \/ DigitsValue(fpart, 1, 0) < 0
        THEN Raised("ValueError")
        ELSE LET v == i * Pow10(scale) + f * Pow10(scale - Len(kept))
             IN  Returned(IF neg THEN -v ELSE v)

\* mutant: latitude and longitude are read from each other's column
FromQgcLine_SwapLatLon(line) ==
    LET parts == SplitTabs(Strip(line), 1, 1, <<>>)
    IN  IF Len(parts) < 12 THEN <<>>
        ELSE <<FullWaypoint(ParseInt(parts[1]).value, ParseInt(parts[4]).value,
                            ParseFloat(parts[10], LatLonScale).value,
                            ParseFloat(parts[9], LatLonScale).value,
                            ParseFloat(parts[11], MilliScale).value,
                            ParseInt(parts[3]).value,
                            ParseFloat(parts[5], MilliScale).value,
                            ParseFloat(parts[6], MilliScale).value,
                            ParseFloat(parts[7], MilliScale).value,
                            ParseFloat(parts[8], MilliScale).value,
                            ParseInt(parts[2]).value,
                            ParseInt(parts[12]).value)>>

\* Waypoint.from_qgc_line: <<waypoint>>, or <<>> for the None it returns
\* when fewer than 12 fields are present or a field does not convert
FromQgcLine(line) ==
    LET parts == SplitTabs(Strip(line), 1, 1, <<>>)
    IN  IF Len(parts) < 12 THEN <<>>
        ELSE LET seq == ParseInt(parts[1])
                 current == ParseInt(parts[2])
                 frame == ParseInt(parts[3])
                 command == ParseInt(parts[4])
                 param1 == ParseFloat(parts[5], MilliScale)
                 param2 == ParseFloat(parts[6], MilliScale)
                 param3 == ParseFloat(parts[7], MilliScale)
                 param4 == ParseFloat(parts[8], MilliScale)
                 lat == ParseFloat(parts[9], LatLonScale)
                 lon == ParseFloat(parts[10], LatLonScale)
                 alt == ParseFloat(parts[11], MilliScale)
                 autocontinue == ParseInt(parts[12])
                 converted == <<seq, current, frame, command, param1, param2,
                                param3, param4, lat, lon, alt, autocontinue>>
             IN  IF \E k \in 1..12 : converted[k].exception # "" THEN <<>>
                 ELSE IF frame.value \notin CoordinateFrameValues
                         \/ command.value \notin MAVCommandValues THEN <<>>
                 ELSE <<FullWaypoint(seq.value, command.value, lat.value,
                                     lon.value, alt.value, frame.value,
                                     param1.value, param2.value, param3.value,
                                     param4.value, current.value,
                                     autocontinue.value)>>

\* WaypointSequence.to_qgc_format
ToQgcFormat(wps) ==
    <<"QGC WPL 110">> \o [k \in 1..Len(wps) |-> ToQgcLine(wps[k])]

\* WaypointSequence.from_qgc_format: blank lines, comments and the header
\* are skipped, each parsed waypoint goes through add()
RECURSIVE FromQgcFormat(_, _, _)
FromQgcFormat(lines, k, sequence) ==
    IF k > Len(lines) THEN sequence
    ELSE LET line == Strip(lines[k])
         IN  IF line = "" \/ StartsWith(line, "#") \/ StartsWith(line, "QGC")
             THEN FromQgcFormat(lines, k + 1, sequence)
             ELSE FromQgcFormat(lines, k + 1,
                      UpdateSequenceNumbers(sequence \o FromQgcLine(line)))

\* bound: longest waypoint sequence that is written out
MaxQgcLen == 3

\* the waypoints a caller adds to the sequence: positions with digits below
\* the print precision, a negative latitude that rounds to zero, commands
\* with parameters, a waypoint built with non-default fields
QgcCallerWaypoints ==
    { create_home_waypoint(241234567, 1207654321, 10126),
      create_navigation_waypoint(-4, 1, 50006, 7),
      create_loiter_waypoint(241240000, 1207660000, 50000, 5250, 2),
      create_change_speed_command(5500, 1),
      create_rtl_waypoint(9),
      FullWaypoint(3, NAV_WAYPOINT, -339000009, -1510000003, 120000, GLOBAL,
                   100, 0, 1, 90000, 1, 0) }

\* text handed to from_qgc_format that to_qgc_format did not produce
QgcForeignTexts ==
    { <<"QGC WPL 110", "# survey", "  ",
        "0\t1\t0\t16\t0\t0\t0\t0\t24.12345600\t120.76543200\t50.00\t1",
        "1\t0\t3\t178\t0\t5.0\t0\t0\t0\t0\t0\t1">>,
      <<"QGC WPL 110",
        "0\t1\t3\t16\t0\t0\t0\t0\t24.1\t120.7\t50.0",
        "5\t0\t3\t999\t0\t0\t0\t0\t24.1\t120.7\t50.0\t1",
        "6\t0\t3\t16\t0\t0\t0\t0\tnorth\t120.7\t50.0\t1",
        "7\t0\t3\t20\t0\t0\t0\t0\t0\t0\t59.0\t1">> }

\* WaypointSequence.add(waypoint), while the text has not been produced
QgcAdd ==
    /\ Len(qgc_waypoints) < MaxQgcLen
    /\ qgc_emitted = <<>>
    /\ \E wp \in QgcCallerWaypoints :
         qgc_waypoints' = UpdateSequenceNumbers(Append(qgc_waypoints, wp))
    /\ qgc_last' = "add"
    /\ UNCHANGED <<qgc_emitted, qgc_parsed>>
    /\ QgcFrame

\* lines = sequence.to_qgc_format()
QgcToQgcFormat ==
    /\ qgc_emitted = <<>>
    /\ qgc_emitted' = ToQgcFormat(qgc_waypoints)
    /\ qgc_last' = "to_qgc_format"
    /\ UNCHANGED <<qgc_waypoints, qgc_parsed>>
    /\ QgcFrame

\* WaypointSequence.from_qgc_format(lines) on the emitted text
QgcFromQgcFormat ==
    /\ qgc_emitted # <<>>
    /\ qgc_parsed' = FromQgcFormat(qgc_emitted, 1, <<>>)
    /\ qgc_last' = "from_qgc_format"
    /\ UNCHANGED <<qgc_waypoints, qgc_emitted>>
    /\ QgcFrame

\* WaypointSequence.from_qgc_format(lines) on a text from elsewhere
QgcFromForeignText ==
    /\ qgc_emitted = <<>>
    /\ \E lines \in QgcForeignTexts :
         qgc_parsed' = FromQgcFormat(lines, 1, <<>>)
    /\ qgc_last' = "from_foreign_text"
    /\ UNCHANGED <<qgc_waypoints, qgc_emitted>>
    /\ QgcFrame

\* a new, empty WaypointSequence
QgcClear ==
    /\ qgc_waypoints' = <<>>
    /\ qgc_emitted' = <<>>
    /\ qgc_parsed' = <<>>
    /\ qgc_last' = "init"
    /\ QgcFrame

QgcInit ==
    /\ qgc_waypoints = <<>>
    /\ qgc_emitted = <<>>
    /\ qgc_parsed = <<>>
    /\ qgc_last = "init"

QgcNext ==
    QgcAdd \/ QgcToQgcFormat \/ QgcFromQgcFormat \/ QgcFromForeignText
    \/ QgcClear

(***************************************************************************)
(* mission/mission_manager.py : Mission                                    *)
(* mission/swarm_coordinator.py : DroneInfo, SwarmMission                  *)
(* Positions are integers in units of 1e-7 degree; altitudes, speeds and   *)
(* times are integers in thousandths.                                      *)
(***************************************************************************)
\* bound: largest number of drones added to a swarm
MaxDrones == 3

\* Mission: params (altitude, speed, home position) and the waypoint list
Mission(home_lat, home_lon, altitude, speed, wps) ==
    [params |-> [altitude |-> altitude, speed |-> speed,
                 home_lat |-> home_lat, home_lon |-> home_lon],
     waypoints |-> wps]

\* DroneInfo(drone_id, name): no mission (<<>>), start_time 0.0 and
\* rtl_altitude 50.0; an assigned mission m is held as <<m>>
DroneInfo(drone_id) ==
    [drone_id |-> drone_id, mission |-> <<>>, start_time |-> 0,
     rtl_altitude |-> 50000]

\* WaypointSequence.get_navigation_waypoints
GetNavigationWaypoints(wps) ==
    SelectSeq(wps, LAMBDA wp : wp.command \in {16, 22, 21, 19, 20})

RECURSIVE SeqMin(_, _, _)
SeqMin(s, k, best) ==
    IF k > Len(s) THEN best
    ELSE SeqMin(s, k + 1, IF s[k] < best THEN s[k] ELSE best)

RECURSIVE SeqMax(_, _, _)
SeqMax(s, k, best) ==
    IF k > Len(s) THEN best
    ELSE SeqMax(s, k + 1, IF s[k] > best THEN s[k] ELSE best)

\* WaypointSequence.get_bounding_box: <<>> for None, else
\* <<min_lat, min_lon, max_lat, max_lon>> of the navigation waypoints
GetBoundingBox(wps) ==
    LET nav_wps == GetNavigationWaypoints(wps)
        lats == [k \in 1..Len(nav_wps) |-> nav_wps[k].lat]
        lons == [k \in 1..Len(nav_wps) |-> nav_wps[k].lon]
    IN  IF Len(nav_wps) = 0 THEN <<>>
        ELSE <<SeqMin(lats, 2, lats[1]), SeqMin(lons, 2, lons[1]),
               SeqMax(lats, 2, lats[1]), SeqMax(lons, 2, lons[1])>>

\* WaypointSequence.validate: the list of error messages
WaypointSequenceValidate(wps) ==
    IF Len(wps) = 0 THEN <<"waypoint sequence is empty">>
    ELSE
      (IF wps[1].command \notin {DO_SET_HOME, NAV_TAKEOFF}
       THEN <<"first waypoint should be HOME or TAKEOFF">> ELSE <<>>)
      \o (IF \E k \in 1..Len(wps) :
               /\ wps[k].command \in {NAV_WAYPOINT, NAV_TAKEOFF, 21}
               /\ \/ wps[k].lat < -900000000 \/ wps[k].lat > 900000000
                  \/ wps[k].lon < -1800000000 \/ wps[k].lon > 1800000000
                  \/ wps[k].alt < 0
          THEN <<"invalid coordinates">> ELSE <<>>)
      \o (IF \E k \in 1..Len(wps) : wps[k].seq # k - 1
          THEN <<"sequence numbers not continuous">> ELSE <<>>)

\* Mission.validate: the list of error messages
MissionValidate(mission) ==
    (IF mission.params.home_lat = 0 /\ mission.params.home_lon = 0
     THEN <<"HOME position not set">> ELSE <<>>)
    \o WaypointSequenceValidate(mission.waypoints)

\* SwarmMission._bboxes_overlap
BboxesOverlap(bbox1, bbox2) ==
    ~(bbox1[3] < bbox2[1] \/ bbox1[1] > bbox2[3] \/
      bbox1[4] < bbox2[2] \/ bbox1[2] > bbox2[4])

\* the bboxes list of _check_spatial_separation: one box per drone that
\* has a mission with navigation waypoints
RECURSIVE CollectBboxes(_, _, _)
CollectBboxes(drones, k, bboxes) ==
    IF k > Len(drones) THEN bboxes
    ELSE IF drones[k].mission = <<>> THEN CollectBboxes(drones, k + 1, bboxes)
    ELSE LET bbox == GetBoundingBox(drones[k].mission[1].waypoints)
         IN  CollectBboxes(drones, k + 1,
                 IF bbox = <<>> THEN bboxes ELSE Append(bboxes, bbox))

\* mutant: only neighbouring entries of the list are compared
CheckSpatialSeparation_Adjacent(drones) ==
    LET bboxes == CollectBboxes(drones, 1, <<>>)
    IN  ~\E i \in 1..Len(bboxes) :
            i + 1 <= Len(bboxes) /\ BboxesOverlap(bboxes[i], bboxes[i + 1])

\* SwarmMission._check_spatial_separation
CheckSpatialSeparation(drones) ==
    LET bboxes == CollectBboxes(drones, 1, <<>>)
    IN  ~\E i \in 1..Len(bboxes), j \in 1..Len(bboxes) :
            i < j /\ BboxesOverlap(bboxes[i], bboxes[j])

SeparationError == "mission regions overlap, cannot run simultaneously"

RECURSIVE DroneErrors(_, _)
DroneErrors(drones, k) ==
    IF k > Len(drones) THEN <<>>
    ELSE (IF drones[k].mission = <<>> THEN <<"drone has no mission">>
          ELSE MissionValidate(drones[k].mission[1]))
         \o DroneErrors(drones, k + 1)

\* SwarmMission.validate: (valid, errors)
SwarmValidate(drones, strategy) ==
    LET errors ==
          (IF Len(drones) = 0 THEN <<"no drones">> ELSE <<>>)
          \o DroneErrors(drones, 1)
          \o (IF strategy = "simultaneous" /\ ~CheckSpatialSeparation(drones)
              THEN <<SeparationError>> ELSE <<>>)
    IN  [valid |-> Len(errors) = 0, errors |-> errors]

\* a mission in the assembly order home, speed-set, takeoff, navigation
\* waypoints over a square whose south-west corner is (lat0, lon0), and a
\* return-to-launch item when with_rtl
StandardMission(lat0, lon0, with_rtl) ==
    Mission(lat0, lon0, 50000, 10000,
        UpdateSequenceNumbers(
            << create_home_waypoint(lat0, lon0, 0),
               create_change_speed_command(10000, 1),
               create_takeoff_waypoint(lat0, lon0, 50000, 2),
               create_navigation_waypoint(lat0, lon0 + 1000, 50000, 3),
               create_navigation_waypoint(lat0 + 1000, lon0, 50000, 4) >>
            \o (IF with_rtl THEN <<create_rtl_waypoint(5)>> ELSE <<>>)))

\* a valid mission that takes off before it sets the speed
TakeoffFirstMission(lat0, lon0) ==
    Mission(lat0, lon0, 60000, 10000,
        UpdateSequenceNumbers(
            << create_home_waypoint(lat0, lon0, 0),
               create_takeoff_waypoint(lat0, lon0, 60000, 1),
               create_change_speed_command(10000, 2),
               create_navigation_waypoint(lat0, lon0 + 1000, 60000, 3),
               create_navigation_waypoint(lat0 + 1000, lon0, 60000, 4) >>))

\* the mission of the exporter's example: home and two navigation waypoints
HomeNavMission(lat0, lon0) ==
    Mission(0, 0, 50000, 10000,
        << create_home_waypoint(lat0, lon0, 0),
           create_navigation_waypoint(lat0 + 10000, lon0, 50000, 1),
           create_navigation_waypoint(lat0 + 10000, lon0 + 10000, 50000, 2) >>)

\* Mission() as constructed: home not set, no waypoints
EmptyMission == Mission(0, 0, 50000, 10000, <<>>)

\* the missions handed to assign_mission: squares that are apart, that touch
\* along an edge, that overlap; one that ends with a return-to-launch item
\* (position 0, 0); an empty one
SwMissions ==
    { StandardMission(241000000, 1207000000, FALSE),
      StandardMission(241000000, 1207002000, FALSE),
      StandardMission(241000000, 1207001000, FALSE),
      TakeoffFirstMission(241000500, 1207000500),
      StandardMission(241003000, 1207003000, TRUE),
      EmptyMission }

SwStrategies == {"sequential", "simultaneous", "formation"}

\* SwarmMission(): no drones, strategy sequential, altitude increment 3.0
SwConstruct ==
    /\ sw_drones' = <<>>
    /\ sw_params' = [strategy |-> "sequential", altitude_increment |-> 3000,
                     time_buffer |-> 2000]
    /\ sw_result' = Returned(<<>>)
    /\ sw_last' = [op |-> "init", base_altitude |-> 0]
    /\ SwFrame

\* SwarmMission.add_drone(drone_id, name)
SwAddDrone ==
    /\ Len(sw_drones) < MaxDrones
    /\ \E drone_id \in {1, Len(sw_drones) + 1} :
         /\ sw_drones' = Append(sw_drones, DroneInfo(drone_id))
         /\ sw_result' = Returned(DroneInfo(drone_id))
         /\ sw_last' = [op |-> "add_drone", base_altitude |-> 0]
    /\ UNCHANGED sw_params
    /\ SwFrame

\* SwarmMission.assign_mission(drone_id, mission): the first drone with
\* that id gets the mission; the drones afterwards
AssignMission(drones, drone_id, mission) ==
    LET matching == {k \in 1..Len(drones) : drones[k].drone_id = drone_id}
    IN  IF matching = {} THEN drones
        ELSE LET k == CHOOSE m \in matching : \A n \in matching : m <= n
             IN  [drones EXCEPT ![k].mission = <<mission>>]

\* SwarmMission.assign_mission(drone_id, mission)
SwAssignMission ==
    /\ \E drone_id \in 1..MaxDrones, mission \in SwMissions :
         sw_drones' = AssignMission(sw_drones, drone_id, mission)
    /\ sw_result' = Returned(<<>>)
    /\ sw_last' = [op |-> "assign_mission", base_altitude |-> 0]
    /\ UNCHANGED sw_params
    /\ SwFrame

\* SwarmMission.set_strategy(strategy)
SwSetStrategy ==
    /\ \E strategy \in SwStrategies :
         IF strategy \notin {"sequential", "simultaneous"}
         THEN /\ sw_result' = Raised("ValueError")
              /\ UNCHANGED sw_params
         ELSE /\ sw_result' = Returned(<<>>)
              /\ sw_params' = [sw_params EXCEPT !.strategy = strategy]
    /\ sw_last' = [op |-> "set_strategy", base_altitude |-> 0]
    /\ UNCHANGED sw_drones
    /\ SwFrame

\* SwarmMission.validate()
SwValidate ==
    /\ sw_result' = Returned(SwarmValidate(sw_drones, sw_params.strategy))
    /\ sw_last' = [op |-> "validate", base_altitude |-> 0]
    /\ UNCHANGED <<sw_drones, sw_params>>
    /\ SwFrame

\* bound: apply_collision_avoidance is not called again on a swarm in which
\* a mission already holds this many loiter commands
MaxLoiters == 1

\* SwarmMission.calculate_rtl_altitudes(base_altitude) for n drones
CalculateRtlAltitudes(n, base_altitude, increment) ==
    [k \in 1..n |-> base_altitude + (n - (k - 1) - 1) * increment]

\* CollisionAvoidanceSystem.calculate_loiter_delay: the delays it may
\* return, a hold time in thousandths of a second that is never negative
LoiterDelays == {0, 3000}

\* CollisionAvoidanceSystem.insert_loiter_command(lines, loiter_time,
\* insert_after_line): a loiter-time line is put behind line
\* insert_after_line of the text (line 0 is the header)
InsertLoiterCommand(lines, loiter_time, insert_after_line) ==
    IF loiter_time <= 0 THEN lines
    ELSE ListInsert(lines, insert_after_line + 1,
             ToString(insert_after_line) \o "\t0\t3\t19\t"
             \o FormatFixed(loiter_time, MilliScale, 1)
             \o "\t0\t0\t0\t0\t0\t0\t1")

\* SwarmMission.calculate_loiter_times with the collision_avoidance module
\* present: drone k (index k - 1) onwards, prev_waypoints as left by the
\* drones before it (<<>> while it is None)
RECURSIVE LoiterTimes(_, _, _, _, _)
LoiterTimes(drones, k, prev_waypoints, delay, time_buffer) ==
    IF k > Len(drones) THEN <<>>
    ELSE IF drones[k].mission = <<>> \/ Len(drones[k].mission[1].waypoints) = 0
    THEN <<0>> \o LoiterTimes(drones, k + 1, prev_waypoints, delay, time_buffer)
    ELSE LET nav == GetNavigationWaypoints(drones[k].mission[1].waypoints)
             wps == [n \in 1..Len(nav) |-> <<nav[n].lat, nav[n].lon>>]
         IN  IF k = 1
             THEN <<0>> \o LoiterTimes(drones, k + 1, wps, delay, time_buffer)
             ELSE IF prev_waypoints # <<>> /\ wps # <<>>
             THEN <<delay + (k - 1) * time_buffer>>
                  \o LoiterTimes(drones, k + 1, wps, delay, time_buffer)
             ELSE <<(k - 1) * time_buffer>>
                  \o LoiterTimes(drones, k + 1, prev_waypoints, delay,
                                 time_buffer)

\* SwarmMission._insert_loiter_to_mission: the new waypoint list
InsertLoiterToMission(wps, loiter_time) ==
    FromQgcFormat(InsertLoiterCommand(ToQgcFormat(wps), loiter_time, 2),
                  1, <<>>)

\* max of the altitude parameters of the assigned missions, default 50.0
BaseAltitude(drones) ==
    LET alts == {drones[k].mission[1].params.altitude :
                   k \in {n \in 1..Len(drones) : drones[n].mission # <<>>}}
    IN  IF alts = {} THEN 50000
        ELSE CHOOSE a \in alts : \A b \in alts : a >= b

\* SwarmMission.apply_collision_avoidance: the drones afterwards
ApplyCollisionAvoidance(drones, params, delay) ==
    LET loiter_times == LoiterTimes(drones, 1, <<>>, delay, params.time_buffer)
        rtl_altitudes == CalculateRtlAltitudes(Len(drones), BaseAltitude(drones),
                                               params.altitude_increment)
    IN  [k \in 1..Len(drones) |->
           IF drones[k].mission = <<>> THEN drones[k]
           ELSE LET mission == drones[k].mission[1]
                    sequential == params.strategy = "sequential"
                    insert == sequential /\ loiter_times[k] > 0
                              /\ Len(mission.waypoints) > 0
                IN  [drones[k] EXCEPT
                       !.start_time = IF sequential THEN loiter_times[k] ELSE @,
                       !.mission = IF insert
                                   THEN <<[mission EXCEPT !.waypoints =
                                             InsertLoiterToMission(
                                                 mission.waypoints,
                                                 loiter_times[k])]>>
                                   ELSE @,
                       !.rtl_altitude = rtl_altitudes[k]]]

LoiterCount(wps) ==
    Len(SelectSeq(wps, LAMBDA wp : wp.command = NAV_LOITER_TIME))

\* SwarmMission.apply_collision_avoidance()
SwApplyCollisionAvoidance ==
    /\ \A k \in 1..Len(sw_drones) :
          sw_drones[k].mission # <<>>
          => LoiterCount(sw_drones[k].mission[1].waypoints) < MaxLoiters
    /\ \E delay \in LoiterDelays :
         sw_drones' = ApplyCollisionAvoidance(sw_drones, sw_params, delay)
    /\ sw_result' = Returned(<<>>)
    /\ sw_last' = [op |-> "apply_collision_avoidance", base_altitude |-> 0]
    /\ UNCHANGED sw_params
    /\ SwFrame

\* SwarmMission.calculate_rtl_altitudes(base_altitude)
SwCalculateRtlAltitudes ==
    /\ \E base_altitude \in {50000, 80000} :
         /\ sw_result' = Returned(CalculateRtlAltitudes(Len(sw_drones),
                              base_altitude, sw_params.altitude_increment))
         /\ sw_last' = [op |-> "calculate_rtl_altitudes",
                        base_altitude |-> base_altitude]
    /\ UNCHANGED <<sw_drones, sw_params>>
    /\ SwFrame

SwInit ==
    /\ sw_drones = <<>>
    /\ sw_params = [strategy |-> "sequential", altitude_increment |-> 3000,
                    time_buffer |-> 2000]
    /\ sw_result = Returned(<<>>)
    /\ sw_last = [op |-> "init", base_altitude |-> 0]

SwNext ==
    SwConstruct \/ SwAddDrone \/ SwAssignMission \/ SwSetStrategy
    \/ SwValidate

\* the missions handed to a swarm that is then de-conflicted
SwAvoidMissions ==
    { StandardMission(241000000, 1207000000, FALSE),
      HomeNavMission(237027320, 1204193330),
      EmptyMission }

\* SwarmMission.assign_mission(drone_id, mission) before de-conflicting
SwAssignAvoidMission ==
    /\ \E drone_id \in 1..MaxDrones, mission \in SwAvoidMissions :
         sw_drones' = AssignMission(sw_drones, drone_id, mission)
    /\ sw_result' = Returned(<<>>)
    /\ sw_last' = [op |-> "assign_mission", base_altitude |-> 0]
    /\ UNCHANGED sw_params
    /\ SwFrame

SwAvoidNext ==
    SwAddDrone \/ SwAssignAvoidMission \/ SwSetStrategy
    \/ SwApplyCollisionAvoidance \/ SwCalculateRtlAltitudes

(***************************************************************************)
(* core/global_planner/zigzag_grid_generator_integration.py :              *)
(* MultiDroneSplitter.  Corners are <<lat, lon>> in decimetre-equivalents  *)
(* (1 degree = 111111 m); the gap spacing_m is in decimetres as well.      *)
(***************************************************************************)
\* resolution of the bilinear parameters u and v: 1.0 is UScale
UScale == 600

\* resolution of the strip boundaries: 1 decimetre is FineScale
FineScale == 120

\* MultiDroneSplitter._calc_dist
CalcDist(p1, p2) == Hypot(p2[1] - p1[1], p2[2] - p1[2])

\* MultiDroneSplitter._bilinear, u and v in 1/UScale
Bilinear(corners, u, v) ==
    LET p0 == corners[1]
        p1 == corners[2]
        p2 == corners[3]
        p3 == corners[4]
        w0 == (UScale - u) * (UScale - v)
        w1 == u * (UScale - v)
        w2 == u * v
        w3 == (UScale - u) * v
    IN  << RoundDiv(w0 * p0[1] + w1 * p1[1] + w2 * p2[1] + w3 * p3[1],
                    UScale * UScale),
           RoundDiv(w0 * p0[2] + w1 * p1[2] + w2 * p2[2] + w3 * p3[2],
                    UScale * UScale) >>

ClampU(u) == Max2(0, Min2(UScale, u))

\* the strips of _split_rectangle for n in (2, 3), from strip i on
RECURSIVE RectangleStrips(_, _, _, _, _)
RectangleStrips(corners, n, i, segment_width, spacing_ratio) ==
    IF i >= n THEN <<>>
    ELSE LET u0 == ClampU(i * (segment_width + spacing_ratio))
             u1 == ClampU(i * (segment_width + spacing_ratio) + segment_width)
             rest == RectangleStrips(corners, n, i + 1, segment_width,
                                     spacing_ratio)
         IN  IF u0 >= u1 THEN rest
             ELSE << << Bilinear(corners, u0, 0), Bilinear(corners, u1, 0),
                        Bilinear(corners, u1, UScale),
                        Bilinear(corners, u0, UScale) >> >> \o rest

\* cell (i, j) of the 2x2 grid of _split_rectangle
RectangleCell(corners, i, j, grid_spacing) ==
    LET half == UScale \div 2
        u0 == IF i = 0 THEN 0 ELSE half + grid_spacing
        u1 == IF i = 0 THEN half - grid_spacing ELSE UScale
        v0 == IF j = 0 THEN 0 ELSE half + grid_spacing
        v1 == IF j = 0 THEN half - grid_spacing ELSE UScale
    IN  << Bilinear(corners, u0, v0), Bilinear(corners, u1, v0),
           Bilinear(corners, u1, v1), Bilinear(corners, u0, v1) >>

\* MultiDroneSplitter._split_rectangle
SplitRectangle(corners, n, spacing_m) ==
    LET width1 == CalcDist(corners[1], corners[2])
        spacing_ratio ==
            IF spacing_m > 0 /\ width1 > 0
            THEN Min2(UScale \div 10, RoundDiv(spacing_m * UScale, width1))
            ELSE 0
        regions ==
            IF n \in {2, 3}
            THEN RectangleStrips(corners, n, 0,
                     RoundDiv(UScale - spacing_ratio * (n - 1), n),
                     spacing_ratio)
            ELSE IF n = 4
            THEN << RectangleCell(corners, 0, 0, spacing_ratio \div 2),
                    RectangleCell(corners, 1, 0, spacing_ratio \div 2),
                    RectangleCell(corners, 0, 1, spacing_ratio \div 2),
                    RectangleCell(corners, 1, 1, spacing_ratio \div 2) >>
            ELSE <<>>
    IN  IF regions # <<>> THEN regions ELSE <<corners>>

\* the loop of _split_polygon_strips from strip i on; heights in 1/FineScale
RECURSIVE PolygonStrips(_, _, _, _, _, _, _)
PolygonStrips(corners, n, i, min_y, max_y, strip_height, spacing_deg) ==
    IF i >= n THEN <<>>
    ELSE LET y_start == Max2(min_y, min_y + i * (strip_height + spacing_deg))
             y_end == Min2(max_y, min_y + i * (strip_height + spacing_deg)
                                  + strip_height)
             rest == PolygonStrips(corners, n, i + 1, min_y, max_y,
                                   strip_height, spacing_deg)
         IN  IF y_start >= y_end THEN rest ELSE <<corners>> \o rest

\* MultiDroneSplitter._split_polygon_strips
SplitPolygonStrips(corners, n, spacing_m) ==
    LET lats == [k \in 1..Len(corners) |-> corners[k][1]]
        min_y == FineScale * SeqMin(lats, 2, lats[1])
        max_y == FineScale * SeqMax(lats, 2, lats[1])
        total_height == max_y - min_y
        given == IF spacing_m > 0 THEN FineScale * spacing_m ELSE 0
        spacing_deg ==
            IF 2 * given * (n - 1) >= total_height
            THEN (total_height \div 10) \div (n - 1)
            ELSE given
        strip_height == (total_height - spacing_deg * (n - 1)) \div n
        regions == PolygonStrips(corners, n, 0, min_y, max_y, strip_height,
                                 spacing_deg)
    IN  IF regions # <<>> THEN regions ELSE <<corners>>

\* MultiDroneSplitter.split_region
SplitRegion(corners, num_drones, spacing_m) ==
    IF num_drones = 1 THEN <<corners>>
    ELSE IF Len(corners) # 4
         THEN SplitPolygonStrips(corners, num_drones, spacing_m)
         ELSE SplitRectangle(corners, num_drones, spacing_m)

\* regions handed to split_region: the 100 m square, a 200 m x 100 m
\* rectangle, a parallelogram, a triangle, a pentagon, a hexagon
SplitCorners ==
    { << <<0, 0>>, <<0, 1000>>, <<1000, 1000>>, <<1000, 0>> >>,
      << <<0, 0>>, <<0, 2000>>, <<1000, 2000>>, <<1000, 0>> >>,
      << <<0, 0>>, <<0, 1000>>, <<1000, 1500>>, <<1000, 500>> >>,
      << <<0, 0>>, <<0, 1200>>, <<1200, 600>> >>,
      << <<0, 0>>, <<0, 1000>>, <<600, 1400>>, <<1200, 1000>>,
         <<1200, 0>> >>,
      << <<0, 0>>, <<0, 1000>>, <<500, 1000>>, <<500, 500>>,
         <<1000, 500>>, <<1000, 0>> >> }

SplitDroneCounts == 1..5

\* gaps in decimetres: none, 2 m, 4 m, 10 m, 60 m
SplitSpacings == {0, 20, 40, 100, 600}

\* MultiDroneSplitter.split_region(corners, num_drones, spacing_m)
SpSplitRegion ==
    /\ \E corners \in SplitCorners, num_drones \in SplitDroneCounts,
          spacing_m \in SplitSpacings :
         /\ sp_regions' = SplitRegion(corners, num_drones, spacing_m)
         /\ sp_last' = [op |-> "split_region", corners |-> corners,
                        num_drones |-> num_drones, spacing_m |-> spacing_m]
    /\ SpFrame

SpInit ==
    /\ sp_regions = <<>>
    /\ sp_last = [op |-> "init", corners |-> <<>>, num_drones |-> 0,
                  spacing_m |-> 0]

SpNext == SpSplitRegion

(***************************************************************************)
(* core/global_planner/zigzag_grid_generator_integration.py :              *)
(* MAVLinkExporter, DronePathPlannerAdapter.  Waypoints are <<lat, lon>>   *)
(* in whole metre-equivalents as ZigzagGridGenerator returns them;         *)
(* altitude and speed are whole metres and metres per second, loiter_time  *)
(* whole seconds.                                                          *)
(***************************************************************************)
\* f"{v:.<digits>f}" of a whole number
FormatWhole(v, digits) == ToString(v) \o "." \o PadZeros("", digits)

\* the HOME line: the first waypoint as item 0, current = 1, frame 0
HomeLine(seq, p, altitude) ==
    ToString(seq) \o "\t1\t0\t16\t0\t0\t0\t0\t" \o FormatWhole(p[1], 8)
    \o "\t" \o FormatWhole(p[2], 8) \o "\t" \o FormatWhole(altitude, 2)
    \o "\t1"

\* MAV_CMD_DO_CHANGE_SPEED
SpeedLine(seq, speed) ==
    ToString(seq) \o "\t0\t3\t178\t0\t" \o FormatWhole(speed, 1)
    \o "\t0\t0\t0\t0\t0\t1"

\* MAV_CMD_NAV_LOITER_TIME
LoiterLine(seq, loiter_time) ==
    ToString(seq) \o "\t0\t3\t19\t" \o FormatWhole(loiter_time, 1)
    \o "\t0\t0\t0\t0\t0\t0\t1"

\* MAV_CMD_NAV_WAYPOINT
NavLine(seq, p, altitude) ==
    ToString(seq) \o "\t0\t3\t16\t0\t0\t0\t0\t" \o FormatWhole(p[1], 8)
    \o "\t" \o FormatWhole(p[2], 8) \o "\t" \o FormatWhole(altitude, 2)
    \o "\t1"

\* MAV_CMD_NAV_RETURN_TO_LAUNCH carrying the RTL altitude
RtlLine(seq, rtl_altitude) ==
    ToString(seq) \o "\t0\t3\t20\t0\t0\t0\t0\t0\t0\t"
    \o FormatWhole(rtl_altitude, 1) \o "\t1"

\* the RTL altitude both exporters compute for a region index
ExporterRtlAltitude(altitude, region_idx) == altitude + (3 - region_idx) * 3

\* MAVLinkExporter.generate_lines
GenerateLines(wps, altitude, speed, loiter_time) ==
    LET home == IF Len(wps) > 0 THEN <<HomeLine(0, wps[1], altitude)>>
                ELSE <<>>
        s1 == Len(home)
        loiter == IF loiter_time > 0 THEN <<LoiterLine(s1 + 1, loiter_time)>>
                  ELSE <<>>
        s2 == s1 + 1 + Len(loiter)
    IN  <<"QGC WPL 110">> \o home \o <<SpeedLine(s1, speed)>> \o loiter
        \o [k \in 1..Len(wps) |-> NavLine(s2 + k - 1, wps[k], altitude)]

\* the lines MAVLinkExporter.export_to_file writes to the file
ExportToFile(wps, altitude, speed, include_rtl, loiter_time, region_idx) ==
    LET lines == GenerateLines(wps, altitude, speed, loiter_time)
        seq == Len(lines) - 1
        back == IF Len(wps) > 0 THEN <<NavLine(seq + 1, wps[1], altitude)>>
                ELSE <<>>
    IN  IF ~include_rtl THEN lines
        ELSE lines \o <<SpeedLine(seq, 5)>> \o back
             \o <<RtlLine(seq + 1 + Len(back),
                          ExporterRtlAltitude(altitude, region_idx))>>

\* DronePathPlannerAdapter.generate_zigzag_mission: (lines, waypoints); the
\* items appended after generate_lines are numbered from len(lines)
GenerateZigzagMission(config, speed, corners, region_idx, start_from_left, loiter_time) ==
    LET result == GenerateZigzagGrid(config, ZigzagLineSpacing(config, TRUE),
                                     corners, region_idx, start_from_left)
        wps == FlattenLines(result.scan_lines)
        lines == GenerateLines(wps, config.altitude, speed, loiter_time)
        seq == Len(lines)
    IN  IF ~result.success THEN [lines |-> <<"QGC WPL 110">>, waypoints |-> <<>>]
        ELSE IF Len(wps) = 0 THEN [lines |-> lines, waypoints |-> wps]
        ELSE [lines |-> lines \o << NavLine(seq, wps[1], config.altitude),
                                    SpeedLine(seq + 1, 5),
                                    RtlLine(seq + 2,
                                        ExporterRtlAltitude(config.altitude,
                                                            region_idx)) >>,
              waypoints |-> wps]

\* waypoint lists handed to the exporter
ExWaypointLists ==
    { <<>>, << <<27, 0>>, <<27, 100>> >>,
      << <<27, 0>>, <<27, 100>>, <<57, 100>>, <<57, 0>> >> }

ExAltitudes == {50, 100}

\* regions handed to the adapter: the 100 m square and a two-corner list
ExCorners == {Square100, <<<<0, 0>>, <<0, 100>>>>}

ExLoiterTimes == {0, 5}

\* MAVLinkExporter.generate_lines(waypoints, altitude, speed, loiter_time)
ExGenerateLines ==
    /\ \E wps \in ExWaypointLists, altitude \in ExAltitudes,
          loiter_time \in ExLoiterTimes :
           /\ ex_lines' = GenerateLines(wps, altitude, 5, loiter_time)
           /\ ex_last' = [op |-> "generate_lines", altitude |-> altitude,
                          loiter_time |-> loiter_time,
                          num_drones |-> 0, region_idx |-> 0]
    /\ ExFrame

\* MAVLinkExporter.export_to_file(...) for vehicle region_idx of a swarm
ExExportToFile ==
    /\ \E wps \in ExWaypointLists \ {<<>>}, altitude \in ExAltitudes,
          loiter_time \in ExLoiterTimes, include_rtl \in BOOLEAN,
          num_drones \in 1..(MaxDrones + 1) :
         \E region_idx \in 0..(num_drones - 1) :
           /\ ex_lines' = ExportToFile(wps, altitude, 5, include_rtl,
                                       loiter_time, region_idx)
           /\ ex_last' = [op |-> "export_to_file", altitude |-> altitude,
                          loiter_time |-> loiter_time,
                          num_drones |-> num_drones, region_idx |-> region_idx]
    /\ ExFrame

\* DronePathPlannerAdapter.generate_zigzag_mission(...) for vehicle
\* region_idx of a swarm
ExGenerateZigzagMission ==
    /\ \E config \in ZigzagConfigs, corners \in ExCorners,
          start_from_left \in BOOLEAN, loiter_time \in ExLoiterTimes,
          num_drones \in 1..(MaxDrones + 1) :
         \E region_idx \in 0..(num_drones - 1) :
           /\ ex_lines' = GenerateZigzagMission(config, 5, corners, region_idx,
                              start_from_left, loiter_time).lines
           /\ ex_last' = [op |-> "generate_zigzag_mission",
                          altitude |-> config.altitude,
                          loiter_time |-> loiter_time,
                          num_drones |-> num_drones, region_idx |-> region_idx]
    /\ ExFrame

ExInit ==
    /\ ex_lines = <<>>
    /\ ex_last = [op |-> "init", altitude |-> 0, loiter_time |-> 0,
                  num_drones |-> 0, region_idx |-> 0]

ExNext == ExGenerateLines \/ ExExportToFile \/ ExGenerateZigzagMission

(***************************************************************************)
(* core/base/vehicle_base.py : VehicleConstraints, and                     *)
(* core/local_planner/dwa.py : the dynamic window computed from the        *)
(* constraints of the vehicle set in the planner                           *)
(*                                                                         *)
(* Units: mm/s, mm/s^2, mm, as in the DWA section.                         *)
(***************************************************************************)
\* a VehicleConstraints object; the fields no claim reads keep the values of
\* DEFAULT_MULTIROTOR_CONFIG
VehicleConstraints(maxs, mins, maxa, mtr) ==
    [max_speed |-> maxs, min_speed |-> mins, max_acceleration |-> maxa,
     max_deceleration |-> max_deceleration, max_yaw_rate |-> max_yaw_rate,
     max_yaw_acceleration |-> max_yaw_acceleration, min_turn_radius |-> mtr]

\* VehicleConstraints.validate()
Validate(c) ==
    IF c.max_speed <= c.min_speed THEN Raised("ValueError")
    ELSE IF c.max_acceleration <= 0 THEN Raised("ValueError")
    ELSE IF c.min_turn_radius < 0 THEN Raised("ValueError")
    ELSE Returned(TRUE)

\* DWAPlanner._calculate_dynamic_window on the constraints of self.vehicle
CalculateDynamicWindowOf(constraints, state) ==
    LET w_accel == (constraints.max_yaw_acceleration * dt) \div 10
        v_min_accel == state.speed - (constraints.max_deceleration * dt) \div 10
        v_max_accel == state.speed + (constraints.max_acceleration * dt) \div 10
    IN  [v_min |-> Max2(constraints.min_speed, v_min_accel),
         v_max |-> Min2(constraints.max_speed, v_max_accel),
         w_min |-> Max2(-constraints.max_yaw_rate, state.yaw_rate - w_accel),
         w_max |-> Min2(constraints.max_yaw_rate, state.yaw_rate + w_accel)]

\* the constraints a caller builds: the two default configurations are
\* among them
VcConstraints ==
    {VehicleConstraints(maxs, mins, maxa, mtr) :
        maxs \in {0, 15000, 25000}, mins \in {0, 12000, 25000},
        maxa \in {-1000, 0, 2000, 3000}, mtr \in {-1000, 0, 30000}}

\* VehicleModel.__init__(config) followed by DWAPlanner.set_vehicle(vehicle):
\* the constraints of the configuration become those the planner reads
VcSetVehicle ==
    /\ \E c \in VcConstraints : vc_constraints' = c
    /\ vc_last' = [op |-> "set_vehicle"]
    /\ VcFrame

\* the caller invokes vehicle.constraints.validate()
VcValidate ==
    /\ vc_last' = [op |-> "validate", result |-> Validate(vc_constraints)]
    /\ UNCHANGED vc_constraints
    /\ VcFrame

\* DWAPlanner._calculate_dynamic_window(state, dt)
VcCalculateDynamicWindow ==
    /\ \E state \in {StAtStart, StCruise} :
         vc_last' = [op |-> "calculate_dynamic_window", state |-> state,
                     result |-> Returned(CalculateDynamicWindowOf(vc_constraints, state))]
    /\ UNCHANGED vc_constraints
    /\ VcFrame

\* a Multirotor with DEFAULT_MULTIROTOR_CONFIG is set in the planner
VcInit ==
    /\ vc_constraints = VehicleConstraints(max_speed, min_speed, max_acceleration, 0)
    /\ vc_last = [op |-> "init"]

VcNext == VcSetVehicle \/ VcValidate \/ VcCalculateDynamicWindow

(***************************************************************************)
(* mission/mavlink_exporter.py : MAVLinkExporter.export_mission, and       *)
(* zigzag_grid_generator_integration.py : MAVLinkExporter.export_to_file,  *)
(* writing to a file that may not be writable                              *)
(***************************************************************************)
\* the file at the path handed to the exporter
NoFile == [exists |-> FALSE, lines |-> <<>>]

\* with open(path, 'w') as f: f.write('\n'.join(lines)) under a fault of the
\* file system: "open" makes makedirs or open raise and leaves the file as
\* it was, "write" makes f.write raise after open has truncated the file
WriteLines(file, lines, fault) ==
    CASE fault = "none"  -> [file |-> [exists |-> TRUE, lines |-> lines],
                             error |-> "", writes |-> 1]
      [] fault = "open"  -> [file |-> file, error |-> "OSError", writes |-> 0]
      [] fault = "write" -> [file |-> [exists |-> TRUE, lines |-> <<>>],
                             error |-> "OSError", writes |-> 1]

\* try: ... return True / except Exception: print(...); return False
TryWrite(file, lines, fault) ==
    LET w == WriteLines(file, lines, fault)
    IN  [file |-> w.file, writes |-> w.writes,
         result |-> IF w.error = "" THEN Returned(TRUE) ELSE Returned(FALSE)]

XfFaults == {"none", "open", "write"}

\* zigzag MAVLinkExporter.export_to_file(waypoints, altitude, speed,
\* file_path, include_rtl, loiter_time, region_idx)
XfExportToFile ==
    /\ \E wps \in ExWaypointLists, altitude \in ExAltitudes,
          loiter_time \in ExLoiterTimes, include_rtl \in BOOLEAN,
          fault \in XfFaults :
         LET r == TryWrite(xf_file,
                      ExportToFile(wps, altitude, 5, include_rtl, loiter_time, 0),
                      fault)
         IN  /\ xf_file' = r.file
             /\ xf_last' = [op |-> "export_to_file", fault |-> fault,
                            writes |-> r.writes, result |-> r.result]
    /\ XfFrame

\* MAVLinkExporter.export_mission(mission, filepath) in the QGC WPL format:
\* _export_qgc_wpl writes mission.waypoints.to_qgc_format()
XfExportMission ==
    /\ \E a \in QgcCallerWaypoints, b \in QgcCallerWaypoints, fault \in XfFaults :
         LET r == TryWrite(xf_file,
                      ToQgcFormat(UpdateSequenceNumbers(<<a, b>>)), fault)
         IN  /\ xf_file' = r.file
             /\ xf_last' = [op |-> "export_mission", fault |-> fault,
                            writes |-> r.writes, result |-> r.result]
    /\ XfFrame

XfInit ==
    /\ xf_file = NoFile
    /\ xf_last = [op |-> "init", fault |-> "none", writes |-> 0,
                  result |-> Returned(TRUE)]

XfNext == XfExportToFile \/ XfExportMission

(***************************************************************************)
(* Specifications                                                          *)
(***************************************************************************)
Init ==
    WsInit /\ AsIdle /\ DwaInit /\ OmInit /\ GsInit /\ ZzInit /\ QgcInit
    /\ SwInit /\ SpInit /\ ExInit /\ VcInit
    /\ XfInit

SpecWs == Init /\ [][WsNext]_vars

SpecAStar == Init /\ [][AStarNext]_vars

AStarCapNext == AStarBeginCap \/ AStarIterateBlock \/ AStarExit

SpecAStarCap == Init /\ [][AStarCapNext]_vars

SpecAStarOpen == Init /\ [][AStarOpenNext]_vars

SpecAStarWeighted == Init /\ [][AStarWeightedNext]_vars

SpecDWA == Init /\ [][DwaNext]_vars

SpecObs == Init /\ [][OmNext]_vars

SpecSurvey == Init /\ [][GsNext]_vars

SpecZigzag == Init /\ [][ZzNext]_vars

SpecQgc == Init /\ [][QgcNext]_vars

SpecSwarm == Init /\ [][SwNext]_vars

SpecAvoid == Init /\ [][SwAvoidNext]_vars

SpecSplit == Init /\ [][SpNext]_vars

SpecExport == Init /\ [][ExNext]_vars

SpecVehicle == Init /\ [][VcNext]_vars

SpecExportFile == Init /\ [][XfNext]_vars

C2_NoReexpansion ==
    as_last.kind = "expand" => ~as_last.stale

\* C3: once cancellation has been requested or the timeout has elapsed
\* during a search, the search returns no path.
C3_StopsOnCancelOrTimeout ==
    (as_pc = "done" /\ (as_cancel_requested \/ as_timed_out)) => as_path = <<>>

\* C4: every position A* has added to the open set, and every position
\* after the start on a returned path, is valid: inside the boundary polygon
\* (when one is given) by the even-odd rule and inside no obstacle's
\* point-collision region.
C4_OpenSetValid ==
    LET Valid(p) ==
            /\ as_cfg.boundary # <<>> => PointInPolygon(p, as_cfg.boundary)
            /\ \A k \in 1..Len(as_cfg.obstacles) :
                 ~CircleContainsPoint(as_cfg.obstacles[k], p)
    IN  /\ \A k \in 1..Len(open_set) :
             open_set[k].position # as_cfg.start => Valid(open_set[k].position)
        /\ \A k \in 2..Len(as_path) : Valid(as_path[k])

\* C4 witness: a search with a boundary and an obstacle has expanded a
\* position next to the obstacle's collision region and has returned a path
\* of several positions
C4_Witness ==
    /\ as_pc = "done"
    /\ as_cfg.boundary # <<>>
    /\ as_cfg.obstacles # <<>>
    /\ Len(as_path) >= 3
    /\ \E p \in closed_set :
         \E k \in 1..Len(Directions) :
           CircleContainsPoint(as_cfg.obstacles[1],
                               <<p[1] + Directions[k][1] * as_cfg.step_size,
                                 p[2] + Directions[k][2] * as_cfg.step_size>>)

\* C5: a search performs at most 10 000 iterations; when the loop ends at
\* the cap or with an empty heap the empty path is returned.
C5_IterationCap ==
    /\ iterations <= max_iterations
    /\ (as_pc = "done" /\ as_last.kind \in {"cap", "exhausted"}) => as_path = <<>>

\* C5 witness: a search has been stopped by the cap with entries still in
\* the heap and has returned the empty path
C5_Witness ==
    /\ as_pc = "done"
    /\ as_last.kind = "cap"
    /\ iterations = max_iterations
    /\ open_set # <<>>
    /\ as_path = <<>>

\* C6 (as stated): compute_velocity never returns a command whose one-step
\* prediction penetrates an obstacle's effective radius, unless the one-step
\* prediction of every candidate command of the dynamic window does.
C6_NoPenetratingCommand ==
    dwa_last.op = "compute_velocity" =>
        (Penetrates(OneStepPrediction(vehicle_state, dwa_ret), dwa_last.obstacles)
         => \A k \in 1..Len(VelocitySamples(vehicle_state)) :
              Penetrates(OneStepPrediction(vehicle_state,
                                           VelocitySamples(vehicle_state)[k]),
                         dwa_last.obstacles))

\* C6 (amended): compute_velocity never returns a command whose one-step
\* prediction penetrates an obstacle's effective radius, unless no goal is
\* set or the predicted trajectory of every candidate command of the dynamic
\* window touches or penetrates one somewhere along predict_time.
C6_NoPenetratingUnlessSaturated ==
    dwa_last.op = "compute_velocity" =>
        (Penetrates(OneStepPrediction(vehicle_state, dwa_ret), dwa_last.obstacles)
         => \/ ~dwa_last.sampled
            \/ \A k \in 1..Len(VelocitySamples(vehicle_state)) :
                 MinEffectiveDist(
                     PredictTrajectory(vehicle_state,
                                       VelocitySamples(vehicle_state)[k]),
                     dwa_last.obstacles) <= 0)

\* C6 witness: some candidates of the window penetrate an obstacle at their
\* first step and compute_velocity has returned a moving command that does
\* not
C6_Witness ==
    /\ dwa_last.op = "compute_velocity"
    /\ dwa_last.sampled
    /\ \E k \in 1..Len(VelocitySamples(vehicle_state)) :
         Penetrates(OneStepPrediction(vehicle_state,
                                      VelocitySamples(vehicle_state)[k]),
                    dwa_last.obstacles)
    /\ dwa_ret[1] > 0
    /\ ~Penetrates(OneStepPrediction(vehicle_state, dwa_ret), dwa_last.obstacles)

\* C7: when every candidate velocity has infinite obstacle cost,
\* compute_velocity returns (0, 0) together with a stuck flag, a third
\* component of the returned value, that the caller can observe.
C7_StuckFlag ==
    (/\ dwa_last.op = "compute_velocity"
     /\ dwa_last.sampled
     /\ dwa_last.obstacles # <<>>
     /\ \A k \in 1..Len(VelocitySamples(vehicle_state)) :
          MinEffectiveDist(
              PredictTrajectory(vehicle_state, VelocitySamples(vehicle_state)[k]),
              dwa_last.obstacles) <= 0)
    => /\ dwa_ret[1] = 0
       /\ dwa_ret[2] = 0
       /\ Len(dwa_ret) > 2

\* C8: a compute_velocity call made while the cancel flag is set returns
\* (0, 0).
C8_CancelStops ==
    (dwa_last.op = "compute_velocity" /\ cancel_requested) => dwa_ret = <<0, 0>>

\* C9: a compute_velocity call made with the vehicle within
\* goal_distance_threshold of the path point at the waypoint index, that
\* point not being the last, advances the index by exactly one.
C9_IndexAdvances ==
    (/\ dwa_last.op = "compute_velocity"
     /\ global_path # <<>>
     /\ dwa_last.idx_before < Len(global_path) - 1
     /\ Norm2(vehicle_state.position, global_path[dwa_last.idx_before + 1])
          < goal_distance_threshold)
    => current_waypoint_idx = dwa_last.idx_before + 1

\* the result of the last query, had it been put to manager m
SameQueryOn(m) ==
    CASE om_last.op = "check_point_collision" ->
             OmCheckPointCollision(m, om_objects, om_last.args[1])
      [] om_last.op = "check_segment_collision" ->
             OmCheckSegmentCollision(m, om_objects, om_last.args[1], om_last.args[2])
      [] om_last.op = "find_obstacles_in_region" ->
             FindObstaclesInRegion(m, om_objects, om_last.args[1])
      [] om_last.op = "get_nearest_obstacle" ->
             GetNearestObstacle(m, om_objects, om_last.args[1])
      [] om_last.op = "get_all_obstacles" ->
             GetAllObstacles(m, om_objects)
      [] OTHER -> om_last.result

\* C10: an obstacle whose active flag is false never affects a query:
\* point-collision, segment-collision, obstacles-in-region, nearest-obstacle
\* and get_all_obstacles return what they would return if that obstacle
\* were absent, whether the flag was cleared before or after insertion.
\* Stated for the states in which the id map and the grid match the list;
\* absent means that the manager holds the other obstacles of the list.
C10_InactiveNeverAffects ==
    IndexMatchesList =>
        \A k \in 1..Len(om_objects) :
            (~om_objects[k].active /\ SeqContains(om_obstacles, k))
            => om_last.result = SameQueryOn(ManagerWithout(k))

\* CircleObstacle.intersects_segment: the distance from the centre to the
\* segment is below the effective radius (compared on squares)
CircleIntersectsSegment(o, p1, p2) ==
    LET dx == p2[1] - p1[1]
        dy == p2[2] - p1[2]
        px == o.center[1] - p1[1]
        py == o.center[2] - p1[2]
        qx == o.center[1] - p2[1]
        qy == o.center[2] - p2[2]
        r == CircleEffectiveRadius(o)
        den == dx * dx + dy * dy
        num == px * dx + py * dy
        cross == dx * py - dy * px
    IN  IF den = 0 \/ num <= 0 THEN px * px + py * py < r * r
        ELSE IF num >= den THEN qx * qx + qy * qy < r * r
        ELSE cross * cross < r * r * den

\* CollisionChecker.check_segment_collision over a list of obstacles
CheckSegmentCollision(obstacles, p1, p2) ==
    \E j \in 1..Len(obstacles) : CircleIntersectsSegment(obstacles[j], p1, p2)

\* C11: in a survey grid generated with a non-empty obstacle list, no
\* straight segment between two consecutive emitted waypoints intersects an
\* obstacle of the list.
C11_ConnectorsAvoidObstacles ==
    (gs_result.status = "SUCCESS" /\ gs_last.obstacles # <<>>) =>
        \A k \in 1..(Len(gs_result.waypoints) - 1) :
            ~CheckSegmentCollision(gs_last.obstacles, gs_result.waypoints[k],
                                   gs_result.waypoints[k + 1])

\* what the try block of the last generate_survey_grid call did
LastSurveyTry ==
    SurveyTry(<<>>, gs_config, gs_last.boundary, gs_last.home_position,
              gs_last.obstacles)

\* y_max - y_min of _generate_scan_lines for scan angle 0: the extent of
\* the boundary in latitude
LatExtent(boundary) ==
    LET lats == {boundary[k][1] : k \in 1..Len(boundary)}
    IN  (CHOOSE m \in lats : \A e \in lats : m >= e)
        - (CHOOSE m \in lats : \A e \in lats : m <= e)

\* C19: when fewer than one sweep line fits (y_max - y_min < spacing/2) and
\* nothing raises, generate_survey_grid returns a non-error result whose
\* waypoint list is empty, bookends included, and whose message is a
\* diagnostic about the empty coverage and not the plain waypoint count.
C19_EmptyCoverageDiagnosed ==
    (/\ gs_last.op = "generate_survey_grid"
     /\ LastSurveyTry.exception = ""
     /\ 2 * LatExtent(gs_last.boundary) < GetLineSpacing(gs_config))
    => /\ gs_result.status = "SUCCESS"
       /\ gs_result.waypoints = <<>>
       /\ gs_result.message
            # "generated " \o ToString(Len(gs_result.waypoints)) \o " waypoints"

\* C20: generate_survey_grid always returns; when the boundary has fewer
\* than 3 vertices, or projection, rotation or connection raises, the
\* result has status FAILED, no waypoints and the error message, and the
\* planner's own status is FAILED, not PLANNING.
C20_FailureIsReported ==
    (/\ gs_last.op = "generate_survey_grid"
     /\ (Len(gs_last.boundary) < 3 \/ LastSurveyTry.exception # ""))
    => /\ gs_result.status = "FAILED"
       /\ gs_result.waypoints = <<>>
       /\ gs_result.message = "Survey Grid failed: " \o LastSurveyTry.exception
       /\ LastSurveyTry.exception # ""
       /\ gs_status = "FAILED"

\* C20 witness: a call on a valid region whose scan lines were generated
\* has failed while connecting them, and the planner reports FAILED.
C20_Witness ==
    /\ gs_last.op = "generate_survey_grid"
    /\ Len(gs_last.boundary) >= 3
    /\ gs_scan_lines # <<>>
    /\ gs_status = "FAILED"
    /\ gs_result.status = "FAILED"

\* the least latitude of a region: y_min of the scan frame for scan angle 0
MinLat(corners) ==
    LET lats == {corners[k][1] : k \in 1..Len(corners)}
    IN  CHOOSE m \in lats : \A e \in lats : m <= e

\* the sweep-line positions y_min + spacing/2 + k * spacing that do not
\* exceed y_max
ExpectedSweepLats(corners, spacing) ==
    {y \in MinLat(corners)..(MinLat(corners) + LatExtent(corners)) :
        (y - MinLat(corners) - spacing \div 2) % spacing = 0}

\* C17: the sweep lines lie at y = y_min + spacing/2 + k * spacing, for
\* k = 0, 1, ... while y does not exceed y_max: every scan line of a
\* generated zigzag grid lies at one of these positions.
C17_SweepLinePlacement ==
    (zz_last.op = "generate_zigzag_grid" /\ zz_result.success) =>
        \A i \in 1..Len(zz_result.scan_lines) :
            zz_result.scan_lines[i][1][1]
                \in ExpectedSweepLats(zz_last.corners, zz_line_spacing)

\* the sign of a number
Sign(x) == IF x > 0 THEN 1 ELSE IF x < 0 THEN -1 ELSE 0

\* sign of (wp[2i+1].x - wp[2i].x) for the i-th sweep-line segment (0-based
\* i) of a waypoint list; x is the longitude for scan angle 0
SegmentSign(wps, i) == Sign(wps[2 * i + 2][2] - wps[2 * i + 1][2])

QgcFieldsEqual(a, b) ==
    /\ a.seq = b.seq /\ a.current = b.current /\ a.frame = b.frame
    /\ a.command = b.command /\ a.autocontinue = b.autocontinue
    /\ a.param1 = b.param1 /\ a.param2 = b.param2
    /\ a.param3 = b.param3 /\ a.param4 = b.param4
    /\ Abs(a.lat - b.lat) <= 5 /\ Abs(a.lon - b.lon) <= 5
    /\ Abs(a.alt - b.alt) <= 5

NavPositions(drone) ==
    IF drone.mission = <<>> THEN {}
    ELSE LET nav == GetNavigationWaypoints(drone.mission[1].waypoints)
         IN  {<<nav[k].lat, nav[k].lon>> : k \in 1..Len(nav)}

\* (lat, lon) lies in the bounding box of the set of positions P
InBoundingBox(lat, lon, P) ==
    /\ \E p \in P : p[1] <= lat
    /\ \E p \in P : p[1] >= lat
    /\ \E p \in P : p[2] <= lon
    /\ \E p \in P : p[2] >= lon

\* the bounding boxes of P and Q have a point in common
BoundingBoxesOverlap(P, Q) ==
    \E lat \in {p[1] : p \in P \cup Q}, lon \in {p[2] : p \in P \cup Q} :
        InBoundingBox(lat, lon, P) /\ InBoundingBox(lat, lon, Q)

SomePairOverlaps ==
    \E i \in 1..Len(sw_drones), j \in 1..Len(sw_drones) :
        i < j /\ BoundingBoxesOverlap(NavPositions(sw_drones[i]),
                                      NavPositions(sw_drones[j]))

\* C12: under the simultaneous strategy, validation fails with the
\* separation error whenever the waypoint bounding boxes of two vehicles
\* overlap; the separation check passes only when no pair overlaps.
C12_OverlapFailsValidation ==
    (sw_last.op = "validate" /\ sw_params.strategy = "simultaneous"
     /\ SomePairOverlaps)
    => /\ ~sw_result.value.valid
       /\ \E k \in 1..Len(sw_result.value.errors) :
              sw_result.value.errors[k] = SeparationError

\* three drones with valid missions, the first and the third overlap and
\* neither overlaps the second; the separation error is the only error
C12_Witness ==
    /\ sw_last.op = "validate" /\ sw_params.strategy = "simultaneous"
    /\ Len(sw_drones) = 3
    /\ BoundingBoxesOverlap(NavPositions(sw_drones[1]),
                            NavPositions(sw_drones[3]))
    /\ ~BoundingBoxesOverlap(NavPositions(sw_drones[1]),
                             NavPositions(sw_drones[2]))
    /\ ~BoundingBoxesOverlap(NavPositions(sw_drones[2]),
                             NavPositions(sw_drones[3]))
    /\ sw_result.value.errors = <<SeparationError>>

\* the bounding boxes of two corner lists have no point in common
RegionBoxesDisjoint(r1, r2) ==
    LET P == {r1[k] : k \in 1..Len(r1)}
        Q == {r2[k] : k \in 1..Len(r2)}
    IN  ~BoundingBoxesOverlap(P, Q)

\* C13: for N in {2, 3, 4} vehicles and a positive gap, the partition
\* returns N subregions whose bounding boxes are pairwise non-overlapping,
\* for quadrilateral and for non-quadrilateral inputs.
C13_PartitionIsDisjoint ==
    (sp_last.op = "split_region" /\ sp_last.num_drones \in {2, 3, 4}
     /\ sp_last.spacing_m > 0)
    => /\ Len(sp_regions) = sp_last.num_drones
       /\ \A i \in 1..Len(sp_regions), j \in 1..Len(sp_regions) :
              i < j => RegionBoxesDisjoint(sp_regions[i], sp_regions[j])

\* the fields of the last line of the exported text
ExLastLineParts ==
    IF Len(ex_lines) < 2 THEN <<>>
    ELSE SplitTabs(ex_lines[Len(ex_lines)], 1, 1, <<>>)

\* C15: in a swarm of N vehicles, vehicle i (0-based) is assigned the RTL
\* altitude base + (N - i - 1) * increment (increment 3 m), for every N, so
\* that the last vehicle returns at exactly base.
C15_RtlAltitudeStratified ==
    (ex_last.op \in {"export_to_file", "generate_zigzag_mission"}
     /\ Len(ExLastLineParts) = 12 /\ ExLastLineParts[4] = "20")
    => ParseFloat(ExLastLineParts[11], 1).value
         = 10 * (ex_last.altitude
                 + (ex_last.num_drones - ex_last.region_idx - 1) * 3)

\* the position of the first item with the command in the list, 0 if none
FirstIndexOf(wps, command) ==
    LET at == {k \in 1..Len(wps) : wps[k].command = command}
    IN  IF at = {} THEN 0 ELSE CHOOSE k \in at : \A n \in at : k <= n

\* the drones that apply_collision_avoidance has just delayed
DelayedDrones ==
    {k \in 1..Len(sw_drones) :
        /\ sw_drones[k].mission # <<>>
        /\ sw_drones[k].start_time > 0
        /\ Len(sw_drones[k].mission[1].waypoints) > 0}

\* C14: after collision avoidance is applied under the sequential strategy,
\* the sequence of every delayed vehicle holds a loiter-time command that
\* comes after the initial speed-set command and before the first
\* navigation waypoint
C14_LoiterAfterSpeedBeforeNav ==
    (sw_last.op = "apply_collision_avoidance"
     /\ sw_params.strategy = "sequential")
    => \A k \in DelayedDrones :
          LET wps == sw_drones[k].mission[1].waypoints
              loiter == FirstIndexOf(wps, NAV_LOITER_TIME)
              speed == FirstIndexOf(wps, DO_CHANGE_SPEED)
              nav == FirstIndexOf(wps, NAV_WAYPOINT)
          IN  /\ loiter > 0
              /\ speed > 0 => speed < loiter
              /\ nav > 0 => loiter < nav

\* C28: after any sequence of add_obstacle, remove_obstacle and clear_all
\* calls (caller-supplied or auto-assigned ids, an add that reuses an id
\* included), the obstacle list, the id map and the ids stored in the grid
\* cells describe exactly the same set of obstacles, each under a distinct
\* id: no two list entries share an id, the map holds exactly the ids of the
\* list and maps each to the list entry that carries it, and every grid cell
\* holds, once each, exactly the ids of the list entries whose bounds reach it
C28_IndexDescribesList ==
    LET listed == {om_obstacles[n] : n \in 1..Len(om_obstacles)}
        ids == {om_objects[k].id : k \in listed}
        cells == (DOMAIN om_spatial_grid)
                 \cup UNION {GetGridCellsForBounds(GetBounds(om_objects[k])) :
                               k \in listed}
    IN  /\ \A i \in 1..Len(om_obstacles), j \in 1..Len(om_obstacles) :
              i # j => om_objects[om_obstacles[i]].id
                         # om_objects[om_obstacles[j]].id
        /\ DOMAIN om_obstacle_dict = ids
        /\ \A id \in DOMAIN om_obstacle_dict :
              /\ om_obstacle_dict[id] \in listed
              /\ om_objects[om_obstacle_dict[id]].id = id
        /\ \A cell \in cells :
              LET held == CellIds(om_spatial_grid, cell)
              IN  /\ {held[n] : n \in 1..Len(held)}
                       = {om_objects[k].id :
                            k \in {r \in listed :
                                     cell \in GetGridCellsForBounds(
                                                  GetBounds(om_objects[r]))}}
                  /\ \A a \in 1..Len(held), b \in 1..Len(held) :
                        a # b => held[a] # held[b]

\* CircularObstacle.intersects_segment: the distance from the position to
\* the segment is at most the effective radius (compared on squares)
IntersectsSegment(o, p1, p2) ==
    LET dx == p2[1] - p1[1]
        dy == p2[2] - p1[2]
        px == o.position[1] - p1[1]
        py == o.position[2] - p1[2]
        qx == o.position[1] - p2[1]
        qy == o.position[2] - p2[2]
        r == EffectiveRadius(o)
        den == dx * dx + dy * dy
        num == px * dx + py * dy
        cross == dx * py - dy * px
    IN  IF den = 0 \/ num <= 0 THEN px * px + py * py <= r * r
        ELSE IF num >= den THEN qx * qx + qy * qy <= r * r
        ELSE cross * cross <= r * r * den

\* C29: for any two end points and any contents of the obstacle index,
\* check_segment_collision completes normally and returns a boolean: true
\* if some active obstacle registered in the cell neighbourhood of either
\* end point intersects the segment, false otherwise
C29_SegmentQueryReturnsBoolean ==
    om_last.op = "check_segment_collision"
    => LET p1 == om_last.args[1]
           p2 == om_last.args[2]
           nearby == GetNearbyObstacles(OmManager, p1)
                     \cup GetNearbyObstacles(OmManager, p2)
       IN  om_last.result
             = Returned(\E k \in nearby :
                           /\ om_objects[k].active
                           /\ IntersectsSegment(om_objects[k], p1, p2))

\* the backward walk over the predecessor map from q leaves the map within
\* n steps
RECURSIVE WalkLeavesMap(_, _, _)
WalkLeavesMap(came, q, n) ==
    IF q \notin DOMAIN came THEN TRUE
    ELSE IF n = 0 THEN FALSE
    ELSE WalkLeavesMap(came, came[q], n - 1)

\* C27: a non-empty path returned by A* begins at the start position, ends
\* at the terminal position that satisfied the goal test, and every
\* consecutive pair (p, q) on it is a predecessor link, q having been
\* generated as a neighbour of p; the predecessor map never contains a
\* cycle, so the backward walk from any of its keys leaves the map
C27_PathFollowsPredecessors ==
    /\ \A q \in DOMAIN came_from :
          WalkLeavesMap(came_from, q, Cardinality(DOMAIN came_from))
    /\ (as_pc = "done" /\ as_path # <<>>)
       => /\ as_path[1] = as_cfg.start
          /\ as_last.kind = "goal"
          /\ as_path[Len(as_path)] = as_last.position
          /\ IsGoalReached(as_path[Len(as_path)], as_cfg.goal)
          /\ \A i \in 1..(Len(as_path) - 1) :
                /\ came_from[as_path[i + 1]] = as_path[i]
                /\ SeqContains(GetNeighbors(as_cfg, as_path[i]), as_path[i + 1])

\* a search has returned a path of at least four positions
C27_Witness ==
    as_pc = "done" /\ as_last.kind = "goal" /\ Len(as_path) >= 4

\* the length of a path: the sum of the lengths of its segments
RECURSIVE PathLength(_, _)
PathLength(path, i) ==
    IF i >= Len(path) THEN 0
    ELSE CalculateCost(path[i], path[i + 1]) + PathLength(path, i + 1)

\* C25: on an obstacle-free plane with no boundary, A* returns a path from
\* start to the goal whose length differs from the straight-line start-goal
\* distance by at most step_size * sqrt(2) (sqrt(2) taken as 1.415)
C25_OpenPlaneNearStraight ==
    (as_pc = "done" /\ as_cfg.boundary = NoBoundary
     /\ as_cfg.obstacles = NoObstacles)
    => /\ as_path # <<>>
       /\ as_path[1] = as_cfg.start
       /\ IsGoalReached(as_path[Len(as_path)], as_cfg.goal)
       /\ 1000 * Abs(PathLength(as_path, 1)
                     - CalculateCost(as_cfg.start, as_cfg.goal))
            <= 1415 * as_cfg.step_size

\* C21: the constraints a planner computes with always satisfy
\* max_speed > min_speed, max_acceleration > 0 and min_turn_radius >= 0:
\* the dynamic window is never computed from constraints violating one of
\* these
C21_ConstraintsInUseFeasible ==
    vc_last.op = "calculate_dynamic_window"
    => /\ vc_constraints.max_speed > vc_constraints.min_speed
       /\ vc_constraints.max_acceleration > 0
       /\ vc_constraints.min_turn_radius >= 0

\* C26: for the same start, goal, boundary and obstacles, the path returned
\* with a heuristic weight w1 <= 1 costs no more than the path returned
\* with weight 1
C26_CostMonotoneInWeight ==
    (as_pc = "done" /\ as_path # <<>> /\ as_cfg.weight2 <= 2)
    => LET unit == AStarSearch(SetHeuristicWeight(as_cfg, 2))
       IN  (unit.pc = "done" /\ unit.path # <<>>)
           => PathLength(as_path, 1) <= PathLength(unit.path, 1)

\* C22: an export that could not write its file raises an error to the
\* caller instead of returning normally, and attempts the write at most
\* once
C22_WriteErrorPropagated ==
    xf_last.fault # "none"
    => xf_last.result.exception # "" /\ xf_last.writes <= 1

\* C23: when add_rtl is set and a home position was supplied, the waypoint
\* list of a successful survey ends with a waypoint at the home position
\* followed by an RTL command; an item that is a position (lat, lon,
\* altitude) is a waypoint and not a command
C23_EndsWithHomeThenRtl ==
    (/\ gs_last.op = "generate_survey_grid"
     /\ gs_result.status = "SUCCESS"
     /\ gs_config.add_rtl
     /\ gs_last.home_position # None)
    => LET wps == gs_result.waypoints
           n == Len(wps)
       IN  /\ n >= 2
           /\ wps[n - 1] = <<gs_last.home_position[1], gs_last.home_position[2],
                             gs_config.altitude>>
           /\ Len(wps[n]) # 3

\* C24: every NAV_WAYPOINT line of an emitted QGC WPL 110 text has 12
\* tab-separated fields, latitude and longitude printed with exactly 8
\* fractional digits and altitude with exactly 2; the navigation waypoint at
\* (23.7, 120.4, 50) is emitted with 23.70000000, 120.40000000 and 50.00
C24_LineFieldWidths ==
    LET Fraction(field) == Len(field) - DotPos(field, 1)
        Widths(parts) == /\ Len(parts) = 12
                         /\ DotPos(parts[9], 1) > 0 /\ Fraction(parts[9]) = 8
                         /\ DotPos(parts[10], 1) > 0 /\ Fraction(parts[10]) = 8
                         /\ DotPos(parts[11], 1) > 0 /\ Fraction(parts[11]) = 2
        example == SplitTabs(ToQgcLine(create_navigation_waypoint(
                                 237000000, 1204000000, 50000, 0)), 1, 1, <<>>)
    IN  qgc_last = "to_qgc_format"
        => /\ \A k \in 2..Len(qgc_emitted) :
                LET parts == SplitTabs(qgc_emitted[k], 1, 1, <<>>)
                IN  (Len(parts) >= 4 /\ parts[4] = "16") => Widths(parts)
           /\ example[9] = "23.70000000"
           /\ example[10] = "120.40000000"
           /\ example[11] = "50.00"

\* C30: in every mission emitted as QGC WPL 110 text, the k-th line after
\* the header carries seq = k counting from 0: no gap and no duplicate, the
\* return-to-start, slow-down and RTL items included
C30_SeqConsecutive ==
    \A k \in 2..Len(ex_lines) :
        ParseInt(SplitTabs(ex_lines[k], 1, 1, <<>>)[1]) = Returned(k - 2)

====
